---------------------------- MODULE Spec2Model ----------------------------
(***************************************************************************)
(* Model of pyflink/fn_execution/operations.py: the stream group           *)
(* aggregate operations (non-windowed and windowed) and the operations     *)
(* around them.  The aggregate functions themselves (GroupAggFunction,     *)
(* SimpleAggsHandleFunction, GroupWindowAggFunction, the window assigners  *)
(* and triggers) live in modules that operations.py only imports; they are *)
(* modelled from sections 3, 4 and 8 of the specification.                 *)
(***************************************************************************)
EXTENDS Integers, Sequences, FiniteSets, TLC

VARIABLES
    serialized_fn,   \* spec.serialized_fn: the configuration of the operation
    accumulates,     \* keyed value state "accumulates": key -> accumulator or None
    upstream,        \* environment: rows of each key that upstream holds live
    timer,           \* key -> idle-state cleanup timer: "none", "idle" (registered and
                     \* the key untouched since) or "touched"
    buffer,          \* GroupAggFunction's output buffer, flushed by finish_bundle
    input_datas,     \* inputs handled so far by the running call (the batch, once returned)
    results,         \* value returned by the last completed process_element_or_timer
    returned,        \* TRUE right after a call has returned
    call_state,      \* history: accumulates when the running call started
    last,            \* history: what the last handled input saw and emitted
    live,            \* history: downstream's materialised row per key, or None
    inserted,        \* history: key -> whether downstream holds a row of the key that
                     \* was inserted and not deleted since
    fed,             \* history: the shape of the rows fed to each key
    produced,        \* history: the change records process_element produced in the
                     \* running call (the last call, once returned), in order
    group_window,    \* spec.serialized_fn.group_window of the windowed operation
    wop,             \* the windowed operation: construction status, assigner, trigger
    window_state,    \* <<key, window>> -> accumulator and last fired value
    current_watermark, \* the watermark held by the window function
    watermark,       \* environment: the watermark of the driver
    proc_time,       \* environment: the wall clock of the driver
    timers,          \* environment: the timer queue of the state store
    wresults,        \* value returned by the last windowed process_element_or_timer
    wlast,           \* history: what the last windowed call did
    timer_fires,     \* history: <<key, window>> -> firings caused by a timer
    element_count,   \* key -> elements seen by the count window assigner
    pending_timers,  \* the window function's timer requests not yet drained
    count_fires,     \* history: key -> firings decided by the count trigger
    udfs,            \* serialized_fn.udfs: per aggregate its distinct flag and filter arg
    distinct_data_views, \* descriptor index -> shared distinct multiset (value -> count)
    agg_accumulators, \* aggregate index -> accumulator of the underlying aggregate
    live_rows,       \* environment: row -> copies of it that upstream holds live
    records_seen,    \* number of records the aggregate handle was given
    dlast,           \* history: what the last record did to view and aggregates
    timer_service,   \* ProcessFunctionOperation.timer_service: its _current_watermark
    function_context, \* ProcessFunctionOperation.function_context: its _timestamp
    pf_timers,       \* timers registered through the non-keyed timer service
    pf_results,      \* timer records emitted by the non-keyed timer service
    pf_last,         \* history: the last call on the service and how it ended
    collector_buf,   \* KeyedProcessFunctionOperation._collector.buf
    collected,       \* history: the collector method that appended each entry
    keyed_current_key, \* the current key of the keyed state backend
    kp_last,         \* history: the last call on the keyed operation's parts
    runtime_context, \* the StreamingRuntimeContext handed to the user function
    opened_by,       \* history: the operation whose open() built the context
    rc_last,         \* history: the last state access on the context
    stateful_op,     \* a StatefulFunctionOperation: base_metric_group, keyed_state_backend
    finish_log,      \* history: what the last finish() did, in order
    fin_last,        \* history: the last finish() call
    store_error      \* the state store error that ended the running call, if any

aggVars == <<serialized_fn, accumulates, upstream, timer, buffer, input_datas,
             results, returned, call_state, last, live, fed, produced, inserted>>

winVars == <<group_window, wop, window_state, current_watermark, watermark,
             proc_time, timers, wresults, wlast, timer_fires, element_count,
             pending_timers, count_fires>>

distVars == <<udfs, distinct_data_views, agg_accumulators, live_rows, records_seen, dlast>>

procVars == <<timer_service, function_context, pf_timers, pf_results, pf_last>>

keyedVars == <<collector_buf, collected, keyed_current_key, kp_last>>

ctxVars == <<runtime_context, opened_by, rc_last>>

finVars == <<stateful_op, finish_log, fin_last>>

dsVars == <<keyedVars, ctxVars, finVars, store_error>>

vars == <<aggVars, winVars, distVars, procVars, dsVars>>

----------------------------------------------------------------------------
(* Bounds of the model *)

MaxBatch == 2
MaxRows == 2

\* Keys and values of the input rows: two keys with one value under Spec, one
\* key with two values under SpecSum.
Keys == {"A", "B"}
Values == {5}
SumKeys == {"A"}
SumValues == {3, 5}

\* The absent value (Python's None): a record, so that it compares with records.
None == [none |-> TRUE]

----------------------------------------------------------------------------
(* Constants of operations.py *)

NORMAL_RECORD == 0
TRIGGER_TIMER == 1
REGISTER_EVENT_TIMER == 0
REGISTER_PROCESSING_TIMER == 1

----------------------------------------------------------------------------
(* Rows, inputs and change records *)

RowKinds == {"INSERT", "UPDATE_BEFORE", "UPDATE_AFTER", "DELETE"}

\* An input row of the aggregation: its row kind, its grouping field and its value.
Row(kind, key, value) == [kind |-> kind, key |-> key, value |-> value]

\* [element_type, element, timestamp, key] (operations.py:357-359)
\* The unset key field of an element input.
NoKey == "-"

ElementInput(row) == [type |-> NORMAL_RECORD, element |-> row, key |-> NoKey]
TimerInput(key) == [type |-> TRIGGER_TIMER, element |-> None, key |-> key]

ChangeRecord(kind, key, value) == [kind |-> kind, key |-> key, value |-> value]

is_retract_msg(row) == row.kind \in {"DELETE", "UPDATE_BEFORE"}

----------------------------------------------------------------------------
(* AbstractStreamGroupAggregateOperation.__init__ *)

generate_update_before == serialized_fn.generate_update_before
index_of_count_star == serialized_fn.index_of_count_star
count_star_inserted == serialized_fn.count_star_inserted
state_cleaning_enabled == serialized_fn.state_cleaning_enabled

\* The serialized functions the model draws: a SUM over the value field, with
\* the count-star aggregate inserted at index 1 when upstream can retract.
SerializedFns ==
    { [generate_update_before |-> g, state_cleaning_enabled |-> c,
       count_star_inserted |-> s, index_of_count_star |-> IF s THEN 1 ELSE -1] :
         g \in BOOLEAN, c \in BOOLEAN, s \in BOOLEAN }

----------------------------------------------------------------------------
(* StreamGroupAggregateOperation.create_process_function: the arguments the *)
(* operation hands to GroupAggFunction.                                     *)

create_process_function_swapped_flags ==
    [generate_update_before |-> state_cleaning_enabled,
     state_cleaning_enabled |-> generate_update_before,
     index_of_count_star |-> index_of_count_star]

create_process_function_cleaning_inverted ==
    [generate_update_before |-> generate_update_before,
     state_cleaning_enabled |-> ~state_cleaning_enabled,
     index_of_count_star |-> index_of_count_star]

create_process_function_no_cleaning ==
    [generate_update_before |-> generate_update_before,
     state_cleaning_enabled |-> FALSE,
     index_of_count_star |-> index_of_count_star]

create_process_function ==
    [generate_update_before |-> generate_update_before,
     state_cleaning_enabled |-> state_cleaning_enabled,
     index_of_count_star |-> index_of_count_star]

group_agg_function == create_process_function

----------------------------------------------------------------------------
(* The SUM aggregate with its count-star companion (AccumulatorHandle, 4.4)   *)

createAccumulators == [sum |-> 0, cnt |-> 0]

accumulate(acc, row) == [sum |-> acc.sum + row.value, cnt |-> acc.cnt + 1]

retract_ignores_value(acc, row) == [sum |-> acc.sum, cnt |-> acc.cnt - 1]

retract(acc, row) == [sum |-> acc.sum - row.value, cnt |-> acc.cnt - 1]

getValue(acc) == acc.sum

\* The count-star accumulator tells whether every row was retracted; without a
\* count-star aggregate (index -1) the count is never seen as zero.
record_count_is_zero(fn, acc) == fn.index_of_count_star >= 0 /\ acc.cnt = 0

----------------------------------------------------------------------------
(* NonWindowedAggregateFunction.processElement (4.1)                        *)

key_selector_first_key(row) == "A"

\* RowKeySelector(self.grouping) (operations.py:344): the grouping field of the row.
key_selector(row) == row.key

\* The result of processElement on the state `acc` of the row's key:
\* the state to store (None: cleared) and the change records emitted.
process_element(fn, acc, row) ==
    LET key == key_selector(row)
        first_row == (acc = None)
        accumulators == IF first_row THEN createAccumulators ELSE acc
        pre_agg_value == getValue(accumulators)
        new_acc == IF is_retract_msg(row) THEN retract(accumulators, row)
                   ELSE accumulate(accumulators, row)
        new_agg_value == getValue(new_acc)
    IN  IF ~record_count_is_zero(fn, new_acc)
        THEN [acc |-> new_acc,
              first_row |-> first_row,
              out |-> IF first_row
                      THEN <<ChangeRecord("INSERT", key, new_agg_value)>>
                      ELSE IF fn.generate_update_before
                      THEN <<ChangeRecord("UPDATE_BEFORE", key, pre_agg_value),
                             ChangeRecord("UPDATE_AFTER", key, new_agg_value)>>
                      ELSE <<ChangeRecord("UPDATE_AFTER", key, new_agg_value)>>]
        ELSE [acc |-> IF fn.state_cleaning_enabled THEN None ELSE new_acc,
              first_row |-> first_row,
              out |-> IF first_row THEN <<>>
                      ELSE <<ChangeRecord("DELETE", key, pre_agg_value)>>]

\* onTimer(key): the idle-state cleanup timer of `key` fired.  The state is
\* cleared when the key was not touched since the timer was registered;
\* otherwise the timer is registered again and the state stays.
on_timer_clears_always(key) == TRUE

on_timer_clears(key) == timer[key] = "idle"

\* processElement registers the timer of a key lazily, on the key's first
\* input, and marks the key touched on every later one.
timer_after_element(key) == IF timer[key] = "none" THEN "idle" ELSE "touched"

\* onTimer: a timer that cleared the state is gone, the other is registered again.
timer_after_timer(key) == IF on_timer_clears(key) THEN "none" ELSE "idle"

----------------------------------------------------------------------------
(* Downstream's view of the change records of one key *)

RECURSIVE Apply(_, _)
Apply(view, recs) ==
    IF recs = <<>> THEN view
    ELSE LET r == Head(recs)
         IN Apply([view EXCEPT ![r.key] =
                      IF r.kind \in {"INSERT", "UPDATE_AFTER"} THEN [value |-> r.value]
                      ELSE None],
                  Tail(recs))

\* Whether downstream holds a row of each key that was inserted and not
\* deleted: an INSERT brings the row, a DELETE takes it, an update keeps it.
RECURSIVE Inserted(_, _)
Inserted(has_row, recs) ==
    IF recs = <<>> THEN has_row
    ELSE LET r == Head(recs)
         IN Inserted([has_row EXCEPT ![r.key] =
                         IF r.kind = "INSERT" THEN TRUE
                         ELSE IF r.kind = "DELETE" THEN FALSE
                         ELSE @],
                     Tail(recs))

----------------------------------------------------------------------------
(* AbstractStreamGroupAggregateOperation.process_element_or_timer           *)

\* The keys and values of the running specification.
TheKeys == DOMAIN accumulates
TheValues == DOMAIN upstream[CHOOSE k \in TheKeys : TRUE]

Bag0 == [v \in TheValues |-> 0]
BagSize(b) == LET RECURSIVE S(_)
                  S(vs) == IF vs = {} THEN 0
                           ELSE LET v == CHOOSE x \in vs : TRUE
                                IN b[v] + S(vs \ {v})
              IN S(DOMAIN b)

\* The inputs the driver may feed next: accumulations while the key holds
\* fewer than MaxRows rows, retractions of rows upstream holds (when the
\* upstream can retract at all), and the registered idle-state timers.
Inputs ==
    { ElementInput(Row("INSERT", k, v)) :
        k \in {x \in TheKeys : BagSize(upstream[x]) < MaxRows}, v \in TheValues }
    \cup { ElementInput(Row("DELETE", k, v)) :
        k \in {x \in TheKeys : count_star_inserted},
        v \in {x \in TheValues : \E y \in TheKeys : upstream[y][x] > 0} }
    \cup { TimerInput(k) : k \in {x \in TheKeys : timer[x] # "none"} }

InputEnabled(input) ==
    IF input.type # NORMAL_RECORD THEN TRUE
    ELSE IF ~is_retract_msg(input.element) THEN TRUE
    ELSE upstream[input.element.key][input.element.value] > 0

\* The key an input is about, whatever handles it.
InputKey(input) == IF input.type = NORMAL_RECORD THEN input.element.key ELSE input.key

\* The rows fed to a key since its state was last empty: nothing ("none"), only
\* accumulations ("acc"), n accumulations followed by retractions only ("ret"),
\* or anything else ("mixed").
NoFeed == [phase |-> "none", n |-> 0]

FedAfter(f, row, rows_before) ==
    IF ~is_retract_msg(row)
    THEN (IF f.phase \in {"none", "acc"} THEN [phase |-> "acc", n |-> 0]
          ELSE [phase |-> "mixed", n |-> 0])
    ELSE (IF f.phase = "acc" THEN [phase |-> "ret", n |-> rows_before]
          ELSE IF f.phase = "ret" THEN f
          ELSE [phase |-> "mixed", n |-> 0])

is_normal_record_wrong_tag(input_data) == input_data.type = 2

is_normal_record_never(input_data) == FALSE

\* if input_data[0] == NORMAL_RECORD (operations.py:361)
is_normal_record(input_data) == input_data.type = NORMAL_RECORD

\* The input list handled so far by the running call.
Handled == IF returned THEN <<>> ELSE input_datas

\* One iteration of the loop over input_datas (operations.py:360-364):
\* process_element(input_data[1]) or on_timer(input_data[3]).
HandleInput(input_data) ==
    LET k == InputKey(input_data)
        seen == [input |-> input_data, key |-> k,
                 had_state |-> accumulates[k] # None, pre |-> accumulates[k],
                 live_before |-> live[k], fed_before |-> fed[k]]
    IN
    /\ InputEnabled(input_data)
    /\ Len(Handled) < MaxBatch
    /\ input_datas' = Handled \o <<input_data>>
    /\ call_state' = IF Handled = <<>> THEN accumulates ELSE call_state
    /\ returned' = FALSE
    /\ results' = <<>>
    /\ UNCHANGED serialized_fn
    /\ IF is_normal_record(input_data)
       THEN LET row == input_data.element
                key == key_selector(row)
                r == process_element(group_agg_function, accumulates[key], row)
                cleared == r.acc = None
            IN /\ accumulates' = [accumulates EXCEPT ![key] = r.acc]
               /\ buffer' = buffer \o r.out
               /\ timer' = [timer EXCEPT ![key] = timer_after_element(key)]
               /\ upstream' = [upstream EXCEPT ![key][row.value] =
                                 IF is_retract_msg(row) THEN @ - 1 ELSE @ + 1]
               /\ fed' = [fed EXCEPT ![key] =
                            FedAfter(IF BagSize(upstream[key]) = 0 THEN NoFeed ELSE @,
                                     row, BagSize(upstream[key]))]
               /\ last' = seen @@ [out |-> r.out]
               /\ live' = Apply(live, r.out)
               /\ inserted' = Inserted(inserted, r.out)
               /\ produced' = (IF returned THEN <<>> ELSE produced) \o r.out
       ELSE LET key == input_data.key
                clears == key \in TheKeys /\ on_timer_clears(key)
            IN /\ accumulates' = IF clears THEN [accumulates EXCEPT ![key] = None]
                                 ELSE accumulates
               /\ upstream' = IF clears THEN [upstream EXCEPT ![key] = Bag0]
                              ELSE upstream
               /\ fed' = IF clears THEN [fed EXCEPT ![key] = NoFeed] ELSE fed
               /\ timer' = IF key \in TheKeys
                           THEN [timer EXCEPT ![key] = timer_after_timer(key)]
                           ELSE timer
               /\ last' = seen @@ [out |-> <<>>]
               /\ produced' = IF returned THEN <<>> ELSE produced
               /\ UNCHANGED <<buffer, live, inserted>>

\* GroupAggFunction.finish_bundle: the buffered change records, in order; the
\* buffer is empty afterwards.
finish_bundle == buffer

process_element_or_timer_drops_result == <<>>

process_element_or_timer_returns_last_result == last.out

\* return self.group_agg_function.finish_bundle() (operations.py:365)
process_element_or_timer_result == finish_bundle

\* The end of the loop over input_datas.  A call made right after another has
\* returned, with no input handled in between, is a call with an empty batch.
Return ==
    /\ results' = process_element_or_timer_result
    /\ buffer' = <<>>
    /\ returned' = TRUE
    /\ input_datas' = Handled
    /\ call_state' = IF Handled = <<>> THEN accumulates ELSE call_state
    /\ produced' = IF returned THEN <<>> ELSE produced
    /\ UNCHANGED <<serialized_fn, accumulates, upstream, timer, last, live, fed, inserted>>

process_element_or_timer ==
    \/ \E input_data \in Inputs : HandleInput(input_data)
    \/ Return

\* A state store error: the access of the accumulator state that raised.
NoStoreError == [raised |-> FALSE, access |-> "none", input |-> None]
StoreError(access, input_data) == [raised |-> TRUE, access |-> access, input |-> input_data]

call_ended_by_never(error) == FALSE

\* operations.py:360-365 has no try statement: an exception raised inside
\* process_element or on_timer leaves the loop and the method.
call_ended_by(error) == error.raised

\* The state store raises while process_element loads (value) or stores
\* (update) the accumulators of the record's key: the state is not written and
\* nothing is emitted for the record.
StateStoreError ==
    \E input_data \in Inputs, access \in {"value", "update"} :
        /\ ~call_ended_by(store_error)
        /\ is_normal_record(input_data)
        /\ InputEnabled(input_data)
        /\ Len(Handled) < MaxBatch
        /\ input_datas' = Handled \o <<input_data>>
        /\ call_state' = IF Handled = <<>> THEN accumulates ELSE call_state
        /\ returned' = FALSE
        /\ results' = <<>>
        /\ produced' = IF returned THEN <<>> ELSE produced
        /\ store_error' = StoreError(access, input_data)
        /\ UNCHANGED <<serialized_fn, accumulates, upstream, timer, buffer, last, live, fed,
                       inserted>>
        /\ UNCHANGED <<winVars, distVars, procVars, keyedVars, ctxVars, finVars>>

\* The calls of an operation whose state store may fail.
process_element_or_timer_on_failing_store ==
    \/ /\ ~call_ended_by(store_error)
       /\ process_element_or_timer
       /\ UNCHANGED <<winVars, distVars, procVars, dsVars>>
    \/ StateStoreError

----------------------------------------------------------------------------

NoInput == [type |-> -1, element |-> None, key |-> NoKey]

InitAgg(K, V) ==
    /\ serialized_fn \in SerializedFns
    /\ accumulates = [k \in K |-> None]
    /\ upstream = [k \in K |-> [v \in V |-> 0]]
    /\ timer = [k \in K |-> "none"]
    /\ buffer = <<>>
    /\ input_datas = <<>>
    /\ results = <<>>
    /\ returned = TRUE
    /\ call_state = [k \in K |-> None]
    /\ last = [input |-> NoInput, key |-> NoKey, had_state |-> FALSE, pre |-> None,
               live_before |-> None, fed_before |-> NoFeed, out |-> <<>>]
    /\ live = [k \in K |-> None]
    /\ inserted = [k \in K |-> FALSE]
    /\ fed = [k \in K |-> NoFeed]
    /\ produced = <<>>


----------------------------------------------------------------------------
(* The group window of the windowed operation, its assigners and triggers   *)

WindowSize == 2
MaxTime == 3
Latenesses == {0, 1}
WKeys == {"A"}

TUMBLING_GROUP_WINDOW == "TUMBLING_GROUP_WINDOW"
SLIDING_GROUP_WINDOW == "SLIDING_GROUP_WINDOW"
SESSION_GROUP_WINDOW == "SESSION_GROUP_WINDOW"

GroupWindows ==
    [window_type : {TUMBLING_GROUP_WINDOW, SLIDING_GROUP_WINDOW, SESSION_GROUP_WINDOW},
     is_time_window : BOOLEAN, is_row_time : BOOLEAN,
     window_size : {WindowSize}, allowedLateness : Latenesses,
     namedProperties : {<<>>}]

\* GroupWindow.namedProperties: the four kinds of the protocol and one that is
\* none of them.
WINDOW_START == "WINDOW_START"
WINDOW_END == "WINDOW_END"
ROW_TIME_ATTRIBUTE == "ROW_TIME_ATTRIBUTE"
PROC_TIME_ATTRIBUTE == "PROC_TIME_ATTRIBUTE"
UNKNOWN_PROPERTY == "UNKNOWN_PROPERTY"

MaxProperties == 2

NamedProperties ==
    {WINDOW_START, WINDOW_END, ROW_TIME_ATTRIBUTE, PROC_TIME_ATTRIBUTE, UNKNOWN_PROPERTY}

\* The lists of at most MaxProperties different named properties.
NamedPropertyLists ==
    UNION {{l \in [1..n -> NamedProperties] : \A i, j \in 1..n : l[i] = l[j] => i = j} :
           n \in 0..MaxProperties}

\* Event-time group windows of every type with every list of named properties.
NamedGroupWindows ==
    [window_type : {TUMBLING_GROUP_WINDOW, SLIDING_GROUP_WINDOW, SESSION_GROUP_WINDOW},
     is_time_window : {TRUE}, is_row_time : {TRUE},
     window_size : {WindowSize}, allowedLateness : {0},
     namedProperties : NamedPropertyLists]

TimeWindow(start, end) == [start |-> start, end |-> end]
CountWindow(id) == [id |-> id]

max_timestamp(window) == window.end - 1

TumblingWindowAssigner(size, offset, is_event_time) ==
    [kind |-> "TumblingWindowAssigner", size |-> size, offset |-> offset,
     is_event_time |-> is_event_time]

CountTumblingWindowAssigner(size) ==
    [kind |-> "CountTumblingWindowAssigner", size |-> size]

EventTimeTrigger == [kind |-> "EventTimeTrigger"]
ProcessingTimeTrigger == [kind |-> "ProcessingTimeTrigger"]
CountTrigger(size) == [kind |-> "CountTrigger", count |-> size]

\* Tumbling time windows: floor((timestamp - offset) / size) * size to + size.
\* Tumbling count windows: a new window every `size` elements of the key.
assign_windows(assigner, timestamp, count) ==
    IF assigner.kind = "TumblingWindowAssigner"
    THEN LET start == ((timestamp - assigner.offset) \div assigner.size) * assigner.size
         IN {TimeWindow(start, start + assigner.size)}
    ELSE {CountWindow(count \div assigner.size)}

----------------------------------------------------------------------------
(* StreamGroupWindowAggregateOperation.create_process_function              *)

window_assigner_offset_one(gw) ==
    IF gw.is_time_window
    THEN TumblingWindowAssigner(gw.window_size, 1, gw.is_row_time)
    ELSE CountTumblingWindowAssigner(gw.window_size)

window_assigner_of_always_time(gw) ==
    TumblingWindowAssigner(gw.window_size, 0, gw.is_row_time)

\* operations.py:439-443
window_assigner_of(gw) ==
    IF gw.is_time_window
    THEN TumblingWindowAssigner(gw.window_size, 0, gw.is_row_time)
    ELSE CountTumblingWindowAssigner(gw.window_size)

trigger_of_swapped(gw) ==
    IF gw.is_time_window
    THEN (IF gw.is_row_time THEN ProcessingTimeTrigger ELSE EventTimeTrigger)
    ELSE CountTrigger(gw.window_size)

trigger_of_count_plus_one(gw) ==
    IF gw.is_time_window
    THEN (IF gw.is_row_time THEN EventTimeTrigger ELSE ProcessingTimeTrigger)
    ELSE CountTrigger(gw.window_size + 1)

\* operations.py:450-456
trigger_of(gw) ==
    IF gw.is_time_window
    THEN (IF gw.is_row_time THEN EventTimeTrigger ELSE ProcessingTimeTrigger)
    ELSE CountTrigger(gw.window_size)

KnownProperties == {WINDOW_START, WINDOW_END, ROW_TIME_ATTRIBUTE, PROC_TIME_ATTRIBUTE}

property_expression_row_time_as_end(named_property) ==
    IF named_property = WINDOW_START THEN "value.start"
    ELSE IF named_property = WINDOW_END THEN "value.end"
    ELSE IF named_property = ROW_TIME_ATTRIBUTE THEN "value.end"
    ELSE "-1"

\* operations.py:520-527: the expression appended for a known named property.
property_expression(named_property) ==
    IF named_property = WINDOW_START THEN "value.start"
    ELSE IF named_property = WINDOW_END THEN "value.end"
    ELSE IF named_property = ROW_TIME_ATTRIBUTE THEN "value.end - 1"
    ELSE "-1"

Extractor(expressions) == [expressions |-> expressions]

Unexpected(named_property) == "Unexpected property " \o named_property

SelectSeq2(seq, Test(_)) == SelectSeq(seq, Test)

create_named_property_function_skips_unknown(gw) ==
    LET IsKnown(named_property) == named_property \in KnownProperties
        known == SelectSeq2(gw.namedProperties, IsKnown)
    IN  [raised |-> FALSE, message |-> "",
         fn |-> IF known = <<>> THEN None
                ELSE Extractor([i \in 1..Len(known) |-> property_expression(known[i])])]

\* operations.py:517-534: one expression per named property, in order; an
\* exception at the first property that is none of the four kinds; no
\* extractor (None) when no named property is configured.
create_named_property_function(gw) ==
    LET props == gw.namedProperties
        unknown == {i \in 1..Len(props) : props[i] \notin KnownProperties}
    IN  IF unknown # {}
        THEN [raised |-> TRUE,
              message |-> Unexpected(props[CHOOSE i \in unknown : \A j \in unknown : i <= j]),
              fn |-> None]
        ELSE [raised |-> FALSE, message |-> "",
              fn |-> IF props = <<>> THEN None
                     ELSE Extractor([i \in 1..Len(props) |-> property_expression(props[i])])]

\* The lambda built at operations.py:532: the value of each expression on a window.
eval_expression(expression, value) ==
    IF expression = "value.start" THEN value.start
    ELSE IF expression = "value.end" THEN value.end
    ELSE IF expression = "value.end - 1" THEN value.end - 1
    ELSE -1

named_property_extractor(fn, value) ==
    [i \in 1..Len(fn.expressions) |-> eval_expression(fn.expressions[i], value)]

Constructed_no_lateness(gw) ==
    [status |-> "ready", error |-> "",
     window_assigner |-> window_assigner_of(gw), trigger |-> trigger_of(gw),
     allowed_lateness |-> 0, is_time_window |-> gw.is_time_window,
     named_property_extractor |-> create_named_property_function(gw).fn]

\* operations.py:458-476: the window function is built from the assigner, the
\* trigger and the allowedLateness of the group window.
Constructed(gw) ==
    [status |-> "ready", error |-> "",
     window_assigner |-> window_assigner_of(gw), trigger |-> trigger_of(gw),
     allowed_lateness |-> gw.allowedLateness, is_time_window |-> gw.is_time_window,
     named_property_extractor |-> create_named_property_function(gw).fn]

Raised(message) ==
    [status |-> "failed", error |-> message,
     window_assigner |-> None, trigger |-> None,
     allowed_lateness |-> 0, is_time_window |-> FALSE,
     named_property_extractor |-> None]

window_create_process_function_sliding_as_tumbling(gw) ==
    IF gw.window_type \in {TUMBLING_GROUP_WINDOW, SLIDING_GROUP_WINDOW}
    THEN Constructed(gw)
    ELSE Raised("General Python UDAF in Sessiong window will be implemented in FLINK-21630")

\* operations.py:433-476: the window function of a tumbling window; an
\* exception for a sliding window and for every other window type.
window_create_process_function(gw) ==
    IF gw.window_type = TUMBLING_GROUP_WINDOW
    THEN Constructed(gw)
    ELSE IF gw.window_type = SLIDING_GROUP_WINDOW
    THEN Raised("General Python UDAF in Sliding window will be implemented in FLINK-21629")
    ELSE Raised("General Python UDAF in Sessiong window will be implemented in FLINK-21630")

\* operations.py:427-431: __init__ builds the named-property extractor first,
\* then, through generate_func, the window function.
operation_init(gw) ==
    IF create_named_property_function(gw).raised
    THEN Raised(create_named_property_function(gw).message)
    ELSE window_create_process_function(gw)

NotConstructed ==
    [status |-> "new", error |-> "", window_assigner |-> None, trigger |-> None,
     allowed_lateness |-> 0, is_time_window |-> FALSE,
     named_property_extractor |-> None]

----------------------------------------------------------------------------
(* GroupWindowAggFunction: WindowedAggregateFunction (4.2)                  *)

WindowRow(key, value, rowtime) ==
    [kind |-> "INSERT", key |-> key, value |-> value, rowtime |-> rowtime]

\* A fired row: the aggregate value, then the named properties of the window.
WindowChangeRecord(kind, key, value, window, properties) ==
    [kind |-> kind, key |-> key, value |-> value, window |-> window,
     properties |-> properties]

InternalTimerImpl(timestamp, key, namespace) ==
    [timestamp |-> timestamp, key |-> key, namespace |-> namespace]

\* A timer request of the window function: (TimerOperandType, InternalTimer).
TimerRequest(operand, timestamp, key, window) ==
    [operand |-> operand, timer |-> InternalTimerImpl(timestamp, key, window)]

cleanup_time(window, allowed_lateness) == window.end + allowed_lateness

\* The trigger's answer to an element of `window` that now holds `count`
\* elements: whether to fire, and the timers it registers.
trigger_on_element(trigger, key, window, wm, count) ==
    IF trigger.kind = "EventTimeTrigger"
    THEN (IF max_timestamp(window) <= wm
          THEN [fire |-> TRUE, timers |-> <<>>]
          ELSE [fire |-> FALSE,
                timers |-> <<TimerRequest("REGISTER_EVENT_TIMER",
                                          max_timestamp(window), key, window)>>])
    ELSE IF trigger.kind = "ProcessingTimeTrigger"
    THEN [fire |-> FALSE,
          timers |-> <<TimerRequest("REGISTER_PROC_TIMER",
                                    max_timestamp(window), key, window)>>]
    ELSE [fire |-> count >= trigger.count, timers |-> <<>>]

\* The trigger's answer to a timer of its window firing at `timestamp`.
trigger_on_timer(trigger, domain, timestamp, window) ==
    IF trigger.kind = "EventTimeTrigger"
    THEN domain = "event" /\ timestamp = max_timestamp(window)
    ELSE IF trigger.kind = "ProcessingTimeTrigger"
    THEN domain = "proc" /\ timestamp = max_timestamp(window)
    ELSE FALSE

\* Fired: the change records of a window holding `entry`, by the policy of 4.1
\* scoped to the window.
emit_window_result(op, entry, key, window) ==
    LET properties == IF op.named_property_extractor = None THEN <<>>
                      ELSE named_property_extractor(op.named_property_extractor, window)
    IN  IF entry.acc.cnt = 0
        THEN (IF entry.emitted = None THEN <<>>
              ELSE <<WindowChangeRecord("DELETE", key, entry.emitted.value, window,
                                        properties)>>)
        ELSE IF entry.emitted = None
        THEN <<WindowChangeRecord("INSERT", key, getValue(entry.acc), window, properties)>>
        ELSE <<WindowChangeRecord("UPDATE_AFTER", key, getValue(entry.acc), window,
                                  properties)>>

Without(f, x) == [y \in DOMAIN f \ {x} |-> f[y]]
With(f, x, v) == [y \in DOMAIN f \cup {x} |-> IF y = x THEN v ELSE f[y]]

\* processElement: assign the window, update its accumulator, ask the trigger,
\* emit what a firing yields and register the cleanup timer of a new time window.
window_process_element(op, ws, wm, clock, count, row) ==
    LET key == key_selector(row)
        assigner == op.window_assigner
        timestamp == IF assigner.kind = "TumblingWindowAssigner" /\ ~assigner.is_event_time
                     THEN clock ELSE row.rowtime
        windows == assign_windows(assigner, timestamp, count)
        window == CHOOSE w \in windows : TRUE
        kw == <<key, window>>
        late == /\ op.is_time_window
                /\ assigner.is_event_time
                /\ cleanup_time(window, op.allowed_lateness) <= wm
        is_new == kw \notin DOMAIN ws
        old == IF is_new THEN [acc |-> createAccumulators, emitted |-> None, count |-> 0]
               ELSE ws[kw]
        acc == [old EXCEPT !.acc = accumulate(old.acc, row), !.count = old.count + 1]
        answer == trigger_on_element(op.trigger, key, window, wm, acc.count)
        out == IF answer.fire THEN emit_window_result(op, acc, key, window) ELSE <<>>
        fired == IF answer.fire
                 THEN [acc EXCEPT !.emitted = [value |-> getValue(acc.acc)], !.count = 0]
                 ELSE acc
        purge == answer.fire /\ ~op.is_time_window
        cleanup == IF op.is_time_window /\ is_new
                   THEN <<TimerRequest("REGISTER_EVENT_TIMER",
                                       cleanup_time(window, op.allowed_lateness),
                                       key, window)>>
                   ELSE <<>>
    IN  IF late
        THEN [state |-> ws, out |-> <<>>, timers |-> <<>>, assigned |-> windows,
              fired |-> {}, dropped |-> TRUE, timestamp |-> timestamp, purged |-> {}]
        ELSE [state |-> IF purge THEN Without(ws, kw) ELSE With(ws, kw, fired),
              out |-> out, timers |-> answer.timers \o cleanup, assigned |-> windows,
              fired |-> IF answer.fire THEN {kw} ELSE {}, dropped |-> FALSE,
              timestamp |-> timestamp, purged |-> IF purge THEN {kw} ELSE {}]

\* Purging a window clears its trigger: the timer the trigger holds for the
\* window is deleted.
trigger_clear(trigger, key, window) ==
    IF trigger.kind = "EventTimeTrigger"
    THEN <<TimerRequest("DELETE_EVENT_TIMER", max_timestamp(window), key, window)>>
    ELSE IF trigger.kind = "ProcessingTimeTrigger"
    THEN <<TimerRequest("DELETE_PROC_TIMER", max_timestamp(window), key, window)>>
    ELSE <<>>

\* onEventTime / onProcessingTime: ask the trigger for the timer's window, emit
\* what a firing yields, and purge the window when its cleanup timer fired.
window_on_timer(op, ws, domain, tm) ==
    LET key == tm.key
        window == tm.namespace
        kw == <<key, window>>
        has == kw \in DOMAIN ws
        fire == has /\ op.is_time_window
                    /\ trigger_on_timer(op.trigger, domain, tm.timestamp, window)
        out == IF fire THEN emit_window_result(op, ws[kw], key, window) ELSE <<>>
        ws1 == IF fire
               THEN [ws EXCEPT ![kw].emitted = [value |-> getValue(ws[kw].acc)]]
               ELSE ws
        purge == has /\ op.is_time_window /\ domain = "event"
                     /\ tm.timestamp = cleanup_time(window, op.allowed_lateness)
    IN  [state |-> IF purge THEN Without(ws1, kw) ELSE ws1,
         out |-> out,
         timers |-> IF purge THEN trigger_clear(op.trigger, key, window) ELSE <<>>,
         fired |-> IF fire THEN {kw} ELSE {},
         purged |-> IF purge THEN {kw} ELSE {}]

on_event_time(op, ws, tm) == window_on_timer(op, ws, "event", tm)
on_processing_time(op, ws, tm) == window_on_timer(op, ws, "proc", tm)

\* The namespace coder of the state store: a window as its list of fields.
encode_nested(window) ==
    IF "id" \in DOMAIN window THEN <<window.id>> ELSE <<window.start, window.end>>

decode_nested(bytes) ==
    IF Len(bytes) = 1 THEN CountWindow(bytes[1]) ELSE TimeWindow(bytes[1], bytes[2])

----------------------------------------------------------------------------
(* StreamGroupWindowAggregateOperation (operations.py:423-515)              *)

MaxElements == 3
MaxCountElements == 5
WValues == {1}

DELETE_EVENT_TIMER == 2
DELETE_PROCESSING_TIMER == 3

\* TimerOperandType.value of a timer request.
operand_value(operand) ==
    IF operand = "REGISTER_EVENT_TIMER" THEN REGISTER_EVENT_TIMER
    ELSE IF operand = "REGISTER_PROC_TIMER" THEN REGISTER_PROCESSING_TIMER
    ELSE IF operand = "DELETE_EVENT_TIMER" THEN DELETE_EVENT_TIMER
    ELSE DELETE_PROCESSING_TIMER

\* The input tuple (type, row, timestamp, watermark, timer data).
WindowElementInput(row, wm) ==
    [type |-> NORMAL_RECORD, row |-> row, timestamp |-> -1, watermark |-> wm,
     timer_data |-> None]

WindowTimerInput(t, wm) ==
    [type |-> TRIGGER_TIMER, row |-> None, timestamp |-> t.timestamp, watermark |-> wm,
     timer_data |-> <<t.timer_type, t.key, t.namespace>>]

\* An entry of the returned list: [NORMAL_RECORD, row, None] or
\* [TRIGGER_TIMER, None, [operand value, key, timestamp, encoded window]].
ResultRecord(result_data) ==
    [type |-> NORMAL_RECORD, record |-> result_data, timer |-> None]

ResultTimer(request) ==
    [type |-> TRIGGER_TIMER, record |-> None,
     timer |-> [timer_type |-> operand_value(request.operand),
                key |-> request.timer.key,
                timestamp |-> request.timer.timestamp,
                namespace |-> encode_nested(request.timer.namespace)]]

Wrap(f(_), seq) == [i \in 1..Len(seq) |-> f(seq[i])]

\* The window function keeps its timer requests as a set, in insertion order.
RECURSIVE add_requests(_, _)
add_requests(pending, requests) ==
    IF requests = <<>> THEN pending
    ELSE add_requests(IF \E i \in 1..Len(pending) : pending[i] = Head(requests)
                      THEN pending ELSE Append(pending, Head(requests)),
                      Tail(requests))

element_results_timers_first(out, drained) ==
    Wrap(ResultTimer, drained) \o Wrap(ResultRecord, out)

\* operations.py:486-500: the change records of the element, wrapped, then the
\* drained timer requests, wrapped.
element_results(out, drained) ==
    Wrap(ResultRecord, out) \o Wrap(ResultTimer, drained)

timer_handler_swapped(timer_type) ==
    IF timer_type = REGISTER_EVENT_TIMER THEN "on_processing_time" ELSE "on_event_time"

\* operations.py:508-511: the handler a timer is dispatched to.
timer_handler(timer_type) ==
    IF timer_type = REGISTER_EVENT_TIMER THEN "on_event_time" ELSE "on_processing_time"

\* operations.py:478-515: what one call does to the window function and what
\* it returns.  get_timers drains the requests of the window function; it is
\* called for a record only.  No statement of the method raises: a timer whose
\* type is not REGISTER_EVENT_TIMER takes the else branch.
window_call(op, ws, wm_held, clock, counts, pending, input_data) ==
    IF input_data.type = NORMAL_RECORD
    THEN LET wm == input_data.watermark
             key == key_selector(input_data.row)
             r == window_process_element(op, ws, wm, clock, counts[key], input_data.row)
             get_timers == add_requests(pending, r.timers)
         IN  [state |-> r.state, watermark |-> wm,
              counts |-> IF r.dropped THEN counts
                         ELSE [counts EXCEPT ![key] = @ + 1],
              results |-> element_results(r.out, get_timers),
              pending |-> <<>>, out |-> r.out, drained |-> get_timers, timer |-> None,
              assigned |-> r.assigned, fired |-> r.fired, dropped |-> r.dropped,
              purged |-> r.purged, requests |-> r.timers,
              cause |-> "element", handler |-> "process_element", raised |-> FALSE,
              timestamp |-> r.timestamp]
    ELSE LET timestamp == input_data.timestamp
             timer_data == input_data.timer_data
             key == timer_data[2]
             timer_type == timer_data[1]
             namespace == decode_nested(timer_data[3])
             tm == InternalTimerImpl(timestamp, key, namespace)
             r == IF timer_handler(timer_type) = "on_event_time"
                  THEN on_event_time(op, ws, tm)
                  ELSE on_processing_time(op, ws, tm)
         IN  [state |-> r.state, watermark |-> wm_held, counts |-> counts,
              results |-> Wrap(ResultRecord, r.out),
              pending |-> add_requests(pending, r.timers),
              out |-> r.out, drained |-> <<>>, timer |-> tm,
              assigned |-> {}, fired |-> r.fired, dropped |-> FALSE,
              purged |-> r.purged, requests |-> r.timers,
              cause |-> "timer", raised |-> FALSE,
              handler |-> timer_handler(timer_type),
              timestamp |-> timestamp]

----------------------------------------------------------------------------
(* The driver: the external timer queue, the watermark and the wall clock   *)

register_timer_again(queue, t) ==
    IF t \in DOMAIN queue THEN [queue EXCEPT ![t] = @ + 1] ELSE With(queue, t, 1)

\* Timers are identified by (timestamp, key, namespace) within their time
\* domain: registering a pending timer again is a no-op.
register_timer(queue, t) ==
    IF t \in DOMAIN queue THEN queue ELSE With(queue, t, 1)

delete_timer(queue, t) ==
    IF t \in DOMAIN queue THEN Without(queue, t) ELSE queue

\* One pending copy of the timer is taken out of the queue to be fired.
take_timer(queue, t) ==
    IF queue[t] > 1 THEN [queue EXCEPT ![t] = @ - 1] ELSE Without(queue, t)

IsRegistration(entry) ==
    /\ entry.type = TRIGGER_TIMER
    /\ entry.timer.timer_type \in {REGISTER_EVENT_TIMER, REGISTER_PROCESSING_TIMER}

\* The caller persists the timer entries of a returned list, in order.
RECURSIVE persist_timers(_, _)
persist_timers(queue, res) ==
    IF res = <<>> THEN queue
    ELSE LET entry == Head(res)
             after == IF entry.type # TRIGGER_TIMER THEN queue
                      ELSE IF IsRegistration(entry) THEN register_timer(queue, entry.timer)
                      ELSE delete_timer(queue, [entry.timer EXCEPT !.timer_type = @ - 2])
         IN  persist_timers(after, Tail(res))

Handle(input_data, queue) ==
    /\ wop.status = "ready"
    /\ \E r \in {window_call(wop, window_state, current_watermark, proc_time,
                              element_count, pending_timers, input_data)} :
           /\ window_state' = r.state
           /\ current_watermark' = r.watermark
           /\ element_count' = r.counts
           /\ pending_timers' = r.pending
           /\ wresults' = r.results
           /\ timers' = persist_timers(queue, r.results)
           /\ wlast' = [input |-> input_data, assigned |-> r.assigned,
                        fired |-> r.fired, dropped |-> r.dropped, cause |-> r.cause,
                        watermark |-> watermark, timestamp |-> r.timestamp,
                        purged |-> r.purged, requests |-> r.requests,
                        handler |-> r.handler, raised |-> r.raised,
                        out |-> r.out, drained |-> r.drained, timer |-> r.timer,
                        queue_before |-> queue]
           /\ timer_fires' =
                  IF r.cause = "timer"
                  THEN [kw \in DOMAIN timer_fires \cup r.fired |->
                           (IF kw \in DOMAIN timer_fires THEN timer_fires[kw] ELSE 0)
                           + (IF kw \in r.fired THEN 1 ELSE 0)]
                  ELSE timer_fires
           /\ count_fires' =
                  IF r.cause = "element" /\ r.fired # {} /\ wop.trigger.kind = "CountTrigger"
                  THEN [count_fires EXCEPT ![key_selector(input_data.row)] = @ + 1]
                  ELSE count_fires
    /\ UNCHANGED <<group_window, wop, watermark, proc_time>>
    /\ UNCHANGED <<aggVars, distVars, procVars, dsVars>>

\* __init__ -> generate_func -> create_process_function (operations.py:427-476).
Construct ==
    /\ wop.status = "new"
    /\ wop' = operation_init(group_window)
    /\ UNCHANGED <<group_window, window_state, current_watermark, watermark, proc_time,
                   timers, wresults, wlast, timer_fires, element_count,
                   pending_timers, count_fires>>
    /\ UNCHANGED <<aggVars, distVars, procVars, dsVars>>

\* The driver feeds a record together with its current watermark.
ProcessElement ==
    \E key \in WKeys, value \in WValues, rowtime \in 0..MaxTime :
        /\ element_count[key] < (IF wop.is_time_window THEN MaxElements
                                 ELSE MaxCountElements)
        /\ (~wop.is_time_window => rowtime = 0)
        /\ Handle(WindowElementInput(WindowRow(key, value, rowtime), watermark), timers)

TimerDue(t) ==
    IF t.timer_type = REGISTER_EVENT_TIMER
    THEN t.timestamp <= watermark
    ELSE t.timestamp <= proc_time

\* The driver feeds a registered timer that came due.
TriggerTimer ==
    \E t \in DOMAIN timers :
        /\ TimerDue(t)
        /\ Handle(WindowTimerInput(t, watermark), take_timer(timers, t))

\* A producer of the timer stream that fires a due timer with a kind other
\* than the two registration kinds in its payload.
TimerKinds == {REGISTER_EVENT_TIMER, REGISTER_PROCESSING_TIMER}
MalformedTimerKinds == {DELETE_EVENT_TIMER, DELETE_PROCESSING_TIMER}

TriggerMalformedTimer ==
    \E t \in DOMAIN timers, kind \in MalformedTimerKinds :
        /\ TimerDue(t)
        /\ Handle(WindowTimerInput([t EXCEPT !.timer_type = kind], watermark),
                  take_timer(timers, t))

\* The environment: watermarks strictly increase, and so does the wall clock.
AdvanceWatermark ==
    /\ wop.status = "ready"
    /\ wop.is_time_window
    /\ watermark < MaxTime
    /\ watermark' = watermark + 1
    /\ UNCHANGED <<group_window, wop, window_state, current_watermark, proc_time,
                   timers, wresults, wlast, timer_fires, element_count,
                   pending_timers, count_fires>>
    /\ UNCHANGED <<aggVars, distVars, procVars, dsVars>>

AdvanceClock ==
    /\ wop.status = "ready"
    /\ wop.is_time_window
    /\ proc_time < MaxTime
    /\ proc_time' = proc_time + 1
    /\ UNCHANGED <<group_window, wop, window_state, current_watermark, watermark,
                   timers, wresults, wlast, timer_fires, element_count,
                   pending_timers, count_fires>>
    /\ UNCHANGED <<aggVars, distVars, procVars, dsVars>>

NoWindowInput ==
    [type |-> -1, row |-> None, timestamp |-> -1, watermark |-> 0, timer_data |-> None]

NoCall ==
    [input |-> NoWindowInput, assigned |-> {}, fired |-> {}, dropped |-> FALSE,
     cause |-> "none", watermark |-> 0, timestamp |-> -1, purged |-> {},
     requests |-> <<>>, handler |-> "none", raised |-> FALSE,
     out |-> <<>>, drained |-> <<>>, timer |-> None,
     queue_before |-> <<>>]

InitWindowVars(gws) ==
    /\ group_window \in gws
    /\ wop = NotConstructed
    /\ window_state = <<>>
    /\ current_watermark = 0
    /\ watermark = 0
    /\ proc_time = 0
    /\ timers = <<>>
    /\ pending_timers = <<>>
    /\ count_fires = [k \in WKeys |-> 0]
    /\ wresults = <<>>
    /\ wlast = NoCall
    /\ timer_fires = <<>>
    /\ element_count = [k \in WKeys |-> 0]

IdleGroupWindow ==
    [window_type |-> TUMBLING_GROUP_WINDOW, is_time_window |-> FALSE,
     is_row_time |-> FALSE, window_size |-> WindowSize, allowedLateness |-> 0,
     namedProperties |-> <<>>]

IdleSerializedFn ==
    [generate_update_before |-> FALSE, count_star_inserted |-> FALSE,
     state_cleaning_enabled |-> FALSE, index_of_count_star |-> -1]

----------------------------------------------------------------------------
(* The aggregate handle with shared distinct views                          *)
(* (operations.py:317-354 and spec 3, 4.1)                                  *)

MaxLiveRows == 2
MaxRecords == 4
DValues == {7, 8}
FilterColumns == {1, 2}
AggIndexes == {0, 1}

\* A record of the handle: the aggregated column and the filter columns.
DistinctRow(value, f) == [value |-> value, f |-> f]

DistinctRows == {DistinctRow(v, f) : v \in DValues, f \in [FilterColumns -> BOOLEAN]}

\* serialized_fn.udfs: two aggregates over the same input expression; -1 is the
\* filter arg of a call without FILTER.
Udfs ==
    [AggIndexes -> [distinct : BOOLEAN, filter_arg : {-1} \cup FilterColumns]]

Range(seq) == {seq[i] : i \in 1..Len(seq)}

\* extract_user_defined_aggregate_function: the distinct aggregates over the
\* same input expression share one entry (agg_index_list, filter_arg_list).
distinct_info_dict(fns) ==
    LET d == {i \in AggIndexes : fns[i].distinct}
    IN  IF d = {} THEN {}
        ELSE IF d = AggIndexes
        THEN {[agg_index_list |-> <<0, 1>>,
               filter_arg_list |-> <<fns[0].filter_arg, fns[1].filter_arg>>]}
        ELSE {[agg_index_list |-> <<i>>, filter_arg_list |-> <<fns[i].filter_arg>>] : i \in d}

distinct_index_of(fns, i) ==
    IF ~fns[i].distinct THEN -1
    ELSE LET e == CHOOSE x \in distinct_info_dict(fns) : i \in Range(x.agg_index_list)
         IN  e.agg_index_list[1]

\* operations.py:333-342: one descriptor per shared view, keyed by the index of
\* the first aggregate; a non-filter call among the sharers empties the filter list.
distinct_view_descriptors(fns) ==
    LET dict == distinct_info_dict(fns)
        entry(k) == CHOOSE x \in dict : x.agg_index_list[1] = k
    IN  [k \in {x.agg_index_list[1] : x \in dict} |->
            [filter_args |-> IF -1 \in Range(entry(k).filter_arg_list)
                             THEN <<>>
                             ELSE entry(k).filter_arg_list]]

\* The record contributes to the shared view unless every listed filter fails.
descriptor_filtered(descriptor, row) ==
    /\ descriptor.filter_args # <<>>
    /\ \A a \in Range(descriptor.filter_args) : ~row.f[a]

view_writes_per_function(fns, k) ==
    Cardinality({i \in AggIndexes : distinct_index_of(fns, i) = k})

\* How many times one record is counted into the view of descriptor k.
view_writes(fns, k) == 1

passes_filter(fns, i, row) ==
    IF fns[i].filter_arg < 0 THEN TRUE ELSE row.f[fns[i].filter_arg]

\* accumulate / retract of the handle: the shared views first, then every
\* aggregate that passes its own filter, a distinct one only if the view changed
\* (the value is new, resp. no longer present).
handle_apply(fns, views, accs, row, is_retract) ==
    LET descriptors == distinct_view_descriptors(fns)
        views1 == [k \in DOMAIN views |->
                     IF descriptor_filtered(descriptors[k], row) THEN views[k]
                     ELSE [views[k] EXCEPT ![row.value] =
                              IF is_retract THEN @ - view_writes(fns, k)
                              ELSE @ + view_writes(fns, k)]]
        changed(i) == IF is_retract
                      THEN views1[distinct_index_of(fns, i)][row.value] = 0
                      ELSE views1[distinct_index_of(fns, i)][row.value] = 1
        forwards(i) == /\ passes_filter(fns, i, row)
                       /\ (IF distinct_index_of(fns, i) < 0 THEN TRUE ELSE changed(i))
    IN  [views |-> views1,
         accs |-> [i \in AggIndexes |->
                     IF forwards(i)
                     THEN (IF is_retract THEN retract(accs[i], row)
                           ELSE accumulate(accs[i], row))
                     ELSE accs[i]],
         forwarded |-> {i \in AggIndexes : forwards(i)}]

handle_accumulate(fns, views, accs, row) == handle_apply(fns, views, accs, row, FALSE)
handle_retract(fns, views, accs, row) == handle_apply(fns, views, accs, row, TRUE)
handle_get_value(accs) == [i \in AggIndexes |-> getValue(accs[i])]

LiveRows == {r \in DistinctRows : live_rows[r] > 0}

NumLiveRows == Cardinality(LiveRows) + Cardinality({r \in DistinctRows : live_rows[r] > 1})

HandleStep(row, is_retract) ==
    /\ records_seen < MaxRecords
    /\ IF is_retract THEN live_rows[row] > 0
       ELSE NumLiveRows < MaxLiveRows /\ live_rows[row] < 2
    /\ LET r == handle_apply(udfs, distinct_data_views, agg_accumulators, row, is_retract)
       IN  /\ distinct_data_views' = r.views
           /\ agg_accumulators' = r.accs
           /\ dlast' = [kind |-> IF is_retract THEN "retract" ELSE "accumulate",
                        row |-> row, views_before |-> distinct_data_views,
                        views_after |-> r.views, forwarded |-> r.forwarded,
                        live_before |-> live_rows]
    /\ live_rows' = [live_rows EXCEPT ![row] = IF is_retract THEN @ - 1 ELSE @ + 1]
    /\ records_seen' = records_seen + 1
    /\ UNCHANGED udfs
    /\ UNCHANGED <<aggVars, winVars, procVars, dsVars>>

Accumulate == \E row \in DistinctRows : HandleStep(row, FALSE)

Retract == \E row \in DistinctRows : HandleStep(row, TRUE)

NoRecord ==
    [kind |-> "none", row |-> DistinctRow(0, [c \in FilterColumns |-> FALSE]),
     views_before |-> <<>>, views_after |-> <<>>, forwarded |-> {},
     live_before |-> [r \in DistinctRows |-> 0]]

InitDistinctVars(fnsets) ==
    /\ udfs \in fnsets
    /\ distinct_data_views =
           [k \in DOMAIN distinct_view_descriptors(udfs) |-> [v \in DValues |-> 0]]
    /\ agg_accumulators = [i \in AggIndexes |-> createAccumulators]
    /\ live_rows = [r \in DistinctRows |-> 0]
    /\ records_seen = 0
    /\ dlast = NoRecord

IdleUdfs == [i \in AggIndexes |-> [distinct |-> FALSE, filter_arg |-> -1]]

----------------------------------------------------------------------------
(* ProcessFunctionOperation: the process function of a non-keyed stream     *)
(* (operations.py:666-716)                                                  *)

MaxTimestamp == 3
Timestamps == 0..MaxTimestamp

\* What a call on the timer service does: an exception, or the timers and the
\* timer records it leaves.
ServiceRaised(message, ts, res) ==
    [raised |-> TRUE, message |-> message, timers |-> ts, results |-> res]

ServiceDone(ts, res) ==
    [raised |-> FALSE, message |-> "", timers |-> ts, results |-> res]

register_processing_time_timer_registers(ts, res, t) ==
    ServiceDone(ts \cup {[kind |-> REGISTER_PROCESSING_TIMER, timestamp |-> t]},
                Append(res, [kind |-> REGISTER_PROCESSING_TIMER, timestamp |-> t]))

\* operations.py:711-712
register_processing_time_timer(ts, res, t) ==
    ServiceRaised("Register timers is only supported on a keyed stream.", ts, res)

\* operations.py:714-715
register_event_time_timer(ts, res, t) ==
    ServiceRaised("Register timers is only supported on a keyed stream.", ts, res)

ServiceCall(name, t, outcome) ==
    /\ pf_timers' = outcome.timers
    /\ pf_results' = outcome.results
    /\ pf_last' = [op |-> name, t |-> t, raised |-> outcome.raised,
                   message |-> outcome.message]
    /\ UNCHANGED <<timer_service, function_context>>
    /\ UNCHANGED <<aggVars, winVars, distVars, dsVars>>

RegisterProcessingTimeTimer ==
    \E t \in Timestamps :
        ServiceCall("register_processing_time_timer", t,
                    register_processing_time_timer(pf_timers, pf_results, t))

RegisterEventTimeTimer ==
    \E t \in Timestamps :
        ServiceCall("register_event_time_timer", t,
                    register_event_time_timer(pf_timers, pf_results, t))

\* operations.py:708-709
SetCurrentWatermark ==
    \E wm \in Timestamps :
        /\ timer_service' = [_current_watermark |-> [value |-> wm]]
        /\ pf_last' = [op |-> "set_current_watermark", t |-> wm, raised |-> FALSE,
                       message |-> ""]
        /\ UNCHANGED <<function_context, pf_timers, pf_results>>
        /\ UNCHANGED <<aggVars, winVars, distVars, dsVars>>

\* operations.py:691-692
SetTimestamp ==
    \E ts \in Timestamps :
        /\ function_context' = [_timestamp |-> [value |-> ts]]
        /\ pf_last' = [op |-> "set_timestamp", t |-> ts, raised |-> FALSE, message |-> ""]
        /\ UNCHANGED <<timer_service, pf_timers, pf_results>>
        /\ UNCHANGED <<aggVars, winVars, distVars, dsVars>>

NoServiceCall == [op |-> "none", t |-> 0, raised |-> FALSE, message |-> ""]

\* operations.py:668-672, 685-687, 700-701
InitProcessVars ==
    /\ timer_service = [_current_watermark |-> None]
    /\ function_context = [_timestamp |-> None]
    /\ pf_timers = {}
    /\ pf_results = <<>>
    /\ pf_last = NoServiceCall

----------------------------------------------------------------------------
(* KeyedProcessFunctionOperation (operations.py:719-881)                    *)

MaxBuf == 3
KeyedKeys == {"A", "B"}
KeyedTimestamps == {1, 2}
CollectedData == {7}

\* operations.py:758-760 and 783-784: the entries of the buffer.  A header is
\* a TimerOperandType value or None.
TimerEntry(operand, a, key) == <<[value |-> operand_value(operand)], a, key, None>>
DataEntry(a) == <<None, a>>

\* operations.py:763-766
collect_reg_proc_timer(buf, a, key) == Append(buf, TimerEntry("REGISTER_PROC_TIMER", a, key))

\* operations.py:768-771
collect_reg_event_timer(buf, a, key) == Append(buf, TimerEntry("REGISTER_EVENT_TIMER", a, key))

\* operations.py:773-776
collect_del_proc_timer(buf, a, key) == Append(buf, TimerEntry("DELETE_PROC_TIMER", a, key))

collect_del_event_timer_first(buf, a, key) ==
    <<TimerEntry("DELETE_EVENT_TIMER", a, key)>> \o buf

\* operations.py:778-781
collect_del_event_timer(buf, a, key) == Append(buf, TimerEntry("DELETE_EVENT_TIMER", a, key))

\* operations.py:783-784
collect(buf, a) == Append(buf, DataEntry(a))

\* operations.py:786-787
clear(buf) == <<>>

\* One call on a part of the operation: the buffer after it, and the history.
KeyedCall(op, t, method, buf) ==
    /\ collector_buf' = buf
    /\ collected' = IF method = "clear" THEN <<>>
                    ELSE IF method = "none" THEN collected
                    ELSE Append(collected, method)
    /\ kp_last' = [op |-> op, t |-> t]
    /\ UNCHANGED <<aggVars, winVars, distVars, procVars, ctxVars, finVars, store_error>>

\* InternalTimerService (operations.py:867-881): each method reads the current
\* key of the keyed state backend and hands it to the collector.
KeyedRegisterProcessingTimeTimer ==
    \E t \in KeyedTimestamps :
        /\ Len(collector_buf) < MaxBuf
        /\ LET current_key == keyed_current_key
           IN  KeyedCall("register_processing_time_timer", t, "collect_reg_proc_timer",
                         collect_reg_proc_timer(collector_buf, t, current_key))
        /\ UNCHANGED keyed_current_key

KeyedRegisterEventTimeTimer ==
    \E t \in KeyedTimestamps :
        /\ Len(collector_buf) < MaxBuf
        /\ LET current_key == keyed_current_key
           IN  KeyedCall("register_event_time_timer", t, "collect_reg_event_timer",
                         collect_reg_event_timer(collector_buf, t, current_key))
        /\ UNCHANGED keyed_current_key

KeyedDeleteProcessingTimeTimer ==
    \E t \in KeyedTimestamps :
        /\ Len(collector_buf) < MaxBuf
        /\ LET current_key == keyed_current_key
           IN  KeyedCall("delete_processing_time_timer", t, "collect_del_proc_timer",
                         collect_del_proc_timer(collector_buf, t, current_key))
        /\ UNCHANGED keyed_current_key

KeyedDeleteEventTimeTimer ==
    \E t \in KeyedTimestamps :
        /\ Len(collector_buf) < MaxBuf
        /\ LET current_key == keyed_current_key
           IN  KeyedCall("delete_event_time_timer", t, "collect_del_event_timer",
                         collect_del_event_timer(collector_buf, t, current_key))
        /\ UNCHANGED keyed_current_key

\* The user function emits a value.
Collect ==
    \E a \in CollectedData :
        /\ Len(collector_buf) < MaxBuf
        /\ KeyedCall("collect", a, "collect", collect(collector_buf, a))
        /\ UNCHANGED keyed_current_key

\* The caller has read the buffer.
Clear ==
    /\ collector_buf # <<>>
    /\ KeyedCall("clear", 0, "clear", clear(collector_buf))
    /\ UNCHANGED keyed_current_key

\* The caller moves the keyed state backend to the key of the next input.
SetCurrentKey ==
    \E key \in KeyedKeys :
        /\ key # keyed_current_key
        /\ keyed_current_key' = key
        /\ KeyedCall("set_current_key", 0, "none", collector_buf)

NoKeyedCall == [op |-> "none", t |-> 0]

\* operations.py:721-729, 760-761
InitKeyedVars ==
    /\ collector_buf = <<>>
    /\ collected = <<>>
    /\ keyed_current_key = "A"
    /\ kp_last = NoKeyedCall

----------------------------------------------------------------------------
(* StreamingRuntimeContext and the open() of the data stream operations     *)
(* (operations.py:536-662, 732-750)                                         *)

MaxSubtask == 1
TaskNames == {"map", "process"}
StateNames == {"s1", "s2", "s3"}

RemoteKeyedStateBackend == [backend |-> "remote"]

DataStreamStatelessFunctionOperation == "DataStreamStatelessFunctionOperation"
ProcessFunctionOperation == "ProcessFunctionOperation"
KeyedProcessFunctionOperation == "KeyedProcessFunctionOperation"

DataStreamOperations ==
    {DataStreamStatelessFunctionOperation, ProcessFunctionOperation,
     KeyedProcessFunctionOperation}

\* operations.py:538-554
StreamingRuntimeContext(task_name, index_of_this_subtask, keyed_state_backend) ==
    [_task_name |-> task_name, _index_of_this_subtask |-> index_of_this_subtask,
     _keyed_state_backend |-> keyed_state_backend]

\* operations.py:644-657: open of the stateless operation, inherited by
\* ProcessFunctionOperation; operations.py:737-750: open of the keyed one.
open_runtime_context(operation, task_name, index_of_this_subtask, keyed_state_backend) ==
    IF operation = KeyedProcessFunctionOperation
    THEN StreamingRuntimeContext(task_name, index_of_this_subtask, keyed_state_backend)
    ELSE StreamingRuntimeContext(task_name, index_of_this_subtask, None)

StateAccessRaised ==
    [raised |-> TRUE,
     message |-> "This state is only accessible by functions executed on a KeyedStream.",
     handle |-> None]

StateHandle(kind, name) ==
    [raised |-> FALSE, message |-> "", handle |-> [kind |-> kind, name |-> name]]

\* operations.py:603-607
get_state(ctx, name) ==
    IF ctx._keyed_state_backend # None THEN StateHandle("ValueState", name)
    ELSE StateAccessRaised

\* operations.py:609-613
get_list_state(ctx, name) ==
    IF ctx._keyed_state_backend # None THEN StateHandle("ListState", name)
    ELSE StateAccessRaised

get_map_state_unguarded(ctx, name) == StateHandle("MapState", name)

\* operations.py:615-620
get_map_state(ctx, name) ==
    IF ctx._keyed_state_backend # None THEN StateHandle("MapState", name)
    ELSE StateAccessRaised

\* operations.py:622-627
get_reducing_state(ctx, name) ==
    IF ctx._keyed_state_backend # None THEN StateHandle("ReducingState", name)
    ELSE StateAccessRaised

\* operations.py:629-635
get_aggregating_state(ctx, name) ==
    IF ctx._keyed_state_backend # None THEN StateHandle("AggregatingState", name)
    ELSE StateAccessRaised

NoStateAccess == [method |-> "none", name |-> "", raised |-> FALSE, message |-> "",
                  handle |-> None]

\* open() of an operation builds the context the user function receives.
Open ==
    \E operation \in DataStreamOperations, task_name \in TaskNames,
       index_of_this_subtask \in 0..MaxSubtask :
        /\ runtime_context' = open_runtime_context(operation, task_name,
                                                   index_of_this_subtask,
                                                   RemoteKeyedStateBackend)
        /\ opened_by' = operation
        /\ rc_last' = NoStateAccess
        /\ UNCHANGED <<aggVars, winVars, distVars, procVars, keyedVars, finVars,
                   store_error>>

\* The user function asks its context for a state.
StateAccess(method, name, outcome) ==
    /\ runtime_context # None
    /\ rc_last' = [method |-> method, name |-> name, raised |-> outcome.raised,
                   message |-> outcome.message, handle |-> outcome.handle]
    /\ UNCHANGED <<runtime_context, opened_by>>
    /\ UNCHANGED <<aggVars, winVars, distVars, procVars, keyedVars, finVars,
                   store_error>>

GetState ==
    \E name \in StateNames :
        StateAccess("get_state", name, get_state(runtime_context, name))

GetListState ==
    \E name \in StateNames :
        StateAccess("get_list_state", name, get_list_state(runtime_context, name))

GetMapState ==
    \E name \in StateNames :
        StateAccess("get_map_state", name, get_map_state(runtime_context, name))

GetReducingState ==
    \E name \in StateNames :
        StateAccess("get_reducing_state", name, get_reducing_state(runtime_context, name))

GetAggregatingState ==
    \E name \in StateNames :
        StateAccess("get_aggregating_state", name,
                    get_aggregating_state(runtime_context, name))

InitContextVars ==
    /\ runtime_context = None
    /\ opened_by = "none"
    /\ rc_last = NoStateAccess

----------------------------------------------------------------------------
(* Operation.finish and StatefulFunctionOperation.finish                    *)
(* (operations.py:82-109, 277-286)                                          *)

MaxGauge == 2
MaxCommits == 3
GaugeNames == {"g1", "g2"}

GenericMetricGroup(flink_gauge, beam_gauge) ==
    [_flink_gauge |-> flink_gauge, _beam_gauge |-> beam_gauge]

KeyedStateBackend(commits) == [commits |-> commits]

\* operations.py:102-109: every beam gauge is set to the value of its flink
\* gauge; nothing is done without a metric group.
update_gauge(base_metric_group) ==
    IF base_metric_group # None
    THEN GenericMetricGroup(base_metric_group._flink_gauge,
                            [name \in DOMAIN base_metric_group._flink_gauge |->
                                [value |-> base_metric_group._flink_gauge[name]]])
    ELSE base_metric_group

\* operations.py:99-100
Operation_finish(op, log) ==
    [op |-> [op EXCEPT !.base_metric_group = update_gauge(op.base_metric_group)],
     log |-> Append(log, "_update_gauge")]

commit(keyed_state_backend) == KeyedStateBackend(keyed_state_backend.commits + 1)

StatefulFunctionOperation_finish_commit_first(op, log) ==
    IF op.keyed_state_backend # None
    THEN Operation_finish([op EXCEPT !.keyed_state_backend = commit(op.keyed_state_backend)],
                          Append(log, "commit"))
    ELSE Operation_finish(op, log)

\* operations.py:283-286: super().finish(), then the commit of the keyed
\* state backend if there is one.
StatefulFunctionOperation_finish(op, log) ==
    IF Operation_finish(op, log).op.keyed_state_backend # None
    THEN [op |-> [Operation_finish(op, log).op
                     EXCEPT !.keyed_state_backend = commit(op.keyed_state_backend)],
          log |-> Append(Operation_finish(op, log).log, "commit")]
    ELSE Operation_finish(op, log)

Commits(op) ==
    IF op.keyed_state_backend # None THEN op.keyed_state_backend.commits ELSE 0

\* The caller finishes a bundle.
Finish ==
    /\ Commits(stateful_op) < MaxCommits
    /\ stateful_op' = StatefulFunctionOperation_finish(stateful_op, <<>>).op
    /\ finish_log' = StatefulFunctionOperation_finish(stateful_op, <<>>).log
    /\ fin_last' = [called |-> TRUE, commits_before |-> Commits(stateful_op),
                    had_backend |-> stateful_op.keyed_state_backend # None]
    /\ UNCHANGED <<aggVars, winVars, distVars, procVars, keyedVars, ctxVars,
                   store_error>>

\* A user function moves the value its gauge reports.
SetGauge ==
    \E name \in GaugeNames, value \in 0..MaxGauge :
        /\ stateful_op.base_metric_group # None
        /\ value # stateful_op.base_metric_group._flink_gauge[name]
        /\ stateful_op' =
               [stateful_op EXCEPT !.base_metric_group._flink_gauge[name] = value]
        /\ fin_last' = [fin_last EXCEPT !.called = FALSE]
        /\ UNCHANGED finish_log
        /\ UNCHANGED <<aggVars, winVars, distVars, procVars, keyedVars, ctxVars,
                   store_error>>

NoFinish == [called |-> FALSE, commits_before |-> 0, had_backend |-> FALSE]

\* operations.py:82-89, 279-281: the metric group exists when metrics are
\* enabled; the keyed state backend is the one handed to the constructor.
StatefulOperations ==
    [base_metric_group : {None, GenericMetricGroup([name \in GaugeNames |-> 0],
                                                   [name \in GaugeNames |-> None])},
     keyed_state_backend : {None, KeyedStateBackend(0)}]

IdleStatefulOperation == [base_metric_group |-> None, keyed_state_backend |-> None]

InitFinish(ops) ==
    /\ stateful_op \in ops
    /\ finish_log = <<>>
    /\ fin_last = NoFinish

InitFinishVars == InitFinish({IdleStatefulOperation}) /\ store_error = NoStoreError

Init ==
    InitAgg(Keys, Values) /\ InitWindowVars({IdleGroupWindow}) /\ InitDistinctVars({IdleUdfs}) /\ InitProcessVars /\ InitKeyedVars /\ InitContextVars
    /\ InitFinishVars

Next == process_element_or_timer /\ UNCHANGED <<winVars, distVars, procVars, dsVars>>

Spec == Init /\ [][Next]_vars

\* The same operation over one key and two values.
InitSum ==
    InitAgg(SumKeys, SumValues) /\ InitWindowVars({IdleGroupWindow}) /\ InitDistinctVars({IdleUdfs}) /\ InitProcessVars /\ InitKeyedVars /\ InitContextVars
    /\ InitFinishVars

SpecSum == InitSum /\ [][Next]_vars

\* The non-windowed operation on a state store that may raise.
NextStoreError == process_element_or_timer_on_failing_store

SpecStoreError == Init /\ [][NextStoreError]_vars

InitWin ==
    /\ InitAgg(Keys, Values)
    /\ serialized_fn = IdleSerializedFn
    /\ InitWindowVars(GroupWindows)
    /\ InitDistinctVars({IdleUdfs}) /\ InitProcessVars /\ InitKeyedVars /\ InitContextVars
    /\ InitFinishVars

NextWin == Construct \/ ProcessElement \/ TriggerTimer \/ AdvanceWatermark \/ AdvanceClock

SpecWin == InitWin /\ [][NextWin]_vars

\* The windowed operation fed by a timer stream that may carry malformed kinds.
NextMalformed == NextWin \/ TriggerMalformedTimer

SpecMalformed == InitWin /\ [][NextMalformed]_vars

\* The windowed operation over every list of named properties.
InitProps ==
    /\ InitAgg(Keys, Values)
    /\ serialized_fn = IdleSerializedFn
    /\ InitWindowVars(NamedGroupWindows)
    /\ InitDistinctVars({IdleUdfs}) /\ InitProcessVars /\ InitKeyedVars /\ InitContextVars
    /\ InitFinishVars

NextProps == Construct \/ ProcessElement \/ TriggerTimer \/ AdvanceWatermark

SpecProps == InitProps /\ [][NextProps]_vars

InitDistinct ==
    /\ InitAgg(Keys, Values)
    /\ serialized_fn = IdleSerializedFn
    /\ InitWindowVars({IdleGroupWindow})
    /\ InitDistinctVars(Udfs)
    /\ InitProcessVars /\ InitKeyedVars /\ InitContextVars
    /\ InitFinishVars

NextDistinct == Accumulate \/ Retract

SpecDistinct == InitDistinct /\ [][NextDistinct]_vars

InitProcess ==
    /\ InitAgg(Keys, Values)
    /\ serialized_fn = IdleSerializedFn
    /\ InitWindowVars({IdleGroupWindow})
    /\ InitDistinctVars({IdleUdfs}) /\ InitProcessVars /\ InitKeyedVars /\ InitContextVars
    /\ InitFinishVars

NextProcess ==
    \/ RegisterProcessingTimeTimer
    \/ RegisterEventTimeTimer
    \/ SetCurrentWatermark
    \/ SetTimestamp

SpecProcess == InitProcess /\ [][NextProcess]_vars

\* The keyed process function operation: its timer service and its collector.
NextKeyed ==
    \/ KeyedRegisterProcessingTimeTimer
    \/ KeyedRegisterEventTimeTimer
    \/ KeyedDeleteProcessingTimeTimer
    \/ KeyedDeleteEventTimeTimer
    \/ Collect
    \/ Clear
    \/ SetCurrentKey

SpecKeyed == InitProcess /\ [][NextKeyed]_vars

\* User functions of the data stream operations accessing state.
NextContext ==
    \/ Open
    \/ GetState
    \/ GetListState
    \/ GetMapState
    \/ GetReducingState
    \/ GetAggregatingState

SpecContext == InitProcess /\ [][NextContext]_vars

\* Stateful operations, with and without metrics and keyed state backend,
\* finished bundle after bundle.
InitStateful ==
    /\ InitAgg(Keys, Values)
    /\ serialized_fn = IdleSerializedFn
    /\ InitWindowVars({IdleGroupWindow})
    /\ InitDistinctVars({IdleUdfs}) /\ InitProcessVars /\ InitKeyedVars /\ InitContextVars
    /\ InitFinish(StatefulOperations) /\ store_error = NoStoreError

NextStateful == Finish \/ SetGauge

SpecStateful == InitStateful /\ [][NextStateful]_vars

----------------------------------------------------------------------------
(* Claims about the non-windowed operation *)

LastIsElement == last.input.type = NORMAL_RECORD
LastRow == last.input.element
LastCntBefore == IF last.had_state THEN last.pre.cnt ELSE 0
LastCntAfter == LastCntBefore + (IF is_retract_msg(LastRow) THEN -1 ELSE 1)
LastValueBefore == getValue(last.pre)
LastValueAfter == getValue(accumulates[last.key])

\* Whether downstream, holding `view` for the key, can apply `recs`: every
\* UPDATE_BEFORE(v) and DELETE(v) retracts the row v that is live just then.
RECURSIVE Retractable(_, _)
Retractable(view, recs) ==
    IF recs = <<>> THEN TRUE
    ELSE LET r == Head(recs)
         IN /\ r.kind \in {"UPDATE_BEFORE", "DELETE"} => view = [value |-> r.value]
            /\ Retractable(IF r.kind \in {"INSERT", "UPDATE_AFTER"}
                           THEN [value |-> r.value] ELSE None,
                           Tail(recs))

Kinds(recs) == [i \in 1..Len(recs) |-> recs[i].kind]

\* C1: the change records of every key form a valid retraction stream: each
\* UPDATE_BEFORE(v) and DELETE(v) follows an INSERT or UPDATE_AFTER of v for the
\* key that was not retracted since, and a row count going from positive to
\* zero emits a DELETE and no UPDATE_AFTER.
C1_ValidRetractionStream ==
    LastIsElement =>
        /\ Retractable(last.live_before, last.out)
        /\ (LastCntBefore > 0 /\ LastCntAfter = 0) => Kinds(last.out) = <<"DELETE">>

\* C2: the first record of a key without state yields exactly one change
\* record, an INSERT carrying the aggregate value read after the record.
C2_FirstInsert ==
    (LastIsElement /\ ~last.had_state) =>
        /\ accumulates[last.key] # None
        /\ last.out = <<ChangeRecord("INSERT", last.key, LastValueAfter)>>

C2_Witness ==
    /\ LastIsElement /\ ~last.had_state
    /\ last.out = <<ChangeRecord("INSERT", "B", 5)>>
    /\ accumulates["A"] # None

\* C3: with count_star_inserted and state cleaning, N accumulations followed
\* by N retractions of the same values end with a DELETE as the key's last
\* change record, and the key has no accumulator state left.
C3_AllRetractedYieldsDelete ==
    (/\ count_star_inserted /\ state_cleaning_enabled
     /\ LastIsElement /\ is_retract_msg(LastRow)
     /\ fed[last.key].phase = "ret" /\ BagSize(upstream[last.key]) = 0) =>
        /\ last.out # <<>>
        /\ last.out[Len(last.out)] = ChangeRecord("DELETE", last.key, LastValueBefore)
        /\ accumulates[last.key] = None
        /\ live[last.key] = None

C3_Witness ==
    /\ count_star_inserted /\ state_cleaning_enabled
    /\ LastIsElement /\ is_retract_msg(LastRow)
    /\ fed[last.key] = [phase |-> "ret", n |-> 2] /\ BagSize(upstream[last.key]) = 0
    /\ Kinds(last.out) = <<"DELETE">>
    /\ accumulates[last.key] = None

\* C4: a non-first record that leaves the row count of its key above zero
\* emits UPDATE_BEFORE(previous), UPDATE_AFTER(current) when
\* generate_update_before is set, and UPDATE_AFTER(current) alone otherwise.
C4_UpdateBeforeToggle ==
    (LastIsElement /\ last.had_state /\ LastCntAfter > 0) =>
        /\ accumulates[last.key] # None
        /\ last.out =
            IF generate_update_before
            THEN <<ChangeRecord("UPDATE_BEFORE", last.key, LastValueBefore),
                   ChangeRecord("UPDATE_AFTER", last.key, LastValueAfter)>>
            ELSE <<ChangeRecord("UPDATE_AFTER", last.key, LastValueAfter)>>

C4_Witness ==
    /\ LastIsElement /\ last.had_state /\ LastCntAfter > 0
    /\ generate_update_before
    /\ is_retract_msg(LastRow)
    /\ Kinds(last.out) = <<"UPDATE_BEFORE", "UPDATE_AFTER">>
    /\ last.out[1].value = 10 /\ last.out[2].value = 5

\* C5: from empty state and without generate_update_before, the batch
\* [accumulate(A, 5), accumulate(A, 3)] returns INSERT(A, 5), UPDATE_AFTER(A, 8)
\* and leaves the sum 8 stored for A.
Batch_5_3 == <<ElementInput(Row("INSERT", "A", 5)), ElementInput(Row("INSERT", "A", 3))>>

C5_Scenario ==
    (/\ returned /\ input_datas = Batch_5_3
     /\ ~generate_update_before /\ call_state["A"] = None) =>
        /\ results = <<ChangeRecord("INSERT", "A", 5), ChangeRecord("UPDATE_AFTER", "A", 8)>>
        /\ accumulates["A"] # None
        /\ accumulates["A"].sum = 8

C5_Witness ==
    /\ returned /\ input_datas = Batch_5_3
    /\ ~generate_update_before /\ call_state["A"] = None
    /\ Len(results) = 2 /\ results[2].value = 8

----------------------------------------------------------------------------
(* Claims about the windowed operation *)

TumblingTime == group_window.window_type = TUMBLING_GROUP_WINDOW /\ group_window.is_time_window

EventTime == TumblingTime /\ group_window.is_row_time

\* C6: the tumbling time-window assigner, built with offset 0, assigns an
\* element of timestamp t to exactly one window, the one of length size that
\* starts at floor(t / size) * size; an element on a window boundary goes to
\* the window starting at the boundary, never to the one before it.
C6_TumblingAssignment ==
    (TumblingTime /\ wlast.cause = "element") =>
        LET t == wlast.timestamp
            size == group_window.window_size
        IN  /\ (group_window.is_row_time => t = wlast.input.row.rowtime)
            /\ Cardinality(wlast.assigned) = 1
            /\ \A w \in wlast.assigned :
                  /\ w.start = (t \div size) * size
                  /\ w.end = w.start + size
                  /\ w.start <= t /\ t < w.end
                  /\ (t % size = 0 => w.start = t)

C6_Witness ==
    /\ EventTime /\ wlast.cause = "element"
    /\ wlast.input.row.rowtime = WindowSize
    /\ wlast.assigned = {TimeWindow(WindowSize, 2 * WindowSize)}

C10_UnsupportedWindowRaises ==
    (group_window.window_type # TUMBLING_GROUP_WINDOW) =>
        /\ wop.status \in {"new", "failed"}
        /\ wop.window_assigner = None /\ wop.trigger = None
        /\ (wop.status = "failed" => wop.error # "")
        /\ wlast = NoCall /\ wresults = <<>> /\ window_state = <<>> /\ timers = <<>>

C10_Witness ==
    /\ group_window.window_type = SLIDING_GROUP_WINDOW
    /\ wop.status = "failed"
    /\ wop.error = "General Python UDAF in Sliding window will be implemented in FLINK-21629"

----------------------------------------------------------------------------
(* Claims about the aggregate handle *)

Shared == udfs[0].distinct /\ udfs[1].distinct

\* Copies of rows with aggregated value v that upstream holds live.
LiveCopies(v) ==
    Cardinality({r \in DistinctRows : r.value = v /\ live_rows[r] > 0})
    + Cardinality({r \in DistinctRows : r.value = v /\ live_rows[r] > 1})

\* C8: when two aggregates share one distinct view, a record, also one for
\* which one of them is filtered out, is counted at most once into the shared
\* multiset; an accumulate is forwarded to an underlying aggregate only when the
\* value is new to the multiset, and a retract is forwarded only when the
\* multiset's count of the value reaches zero.
C8_DistinctSuppression ==
    (Shared /\ dlast.kind # "none") =>
        LET v == dlast.row.value
            before == dlast.views_before[0][v]
            after == dlast.views_after[0][v]
        IN  /\ DOMAIN distinct_data_views = {0}
            /\ \A u \in DValues \ {v} : dlast.views_after[0][u] = dlast.views_before[0][u]
            /\ \A u \in DValues : distinct_data_views[0][u] <= LiveCopies(u)
            /\ dlast.kind = "accumulate" =>
                  /\ after - before \in {0, 1}
                  /\ (dlast.forwarded # {} => before = 0 /\ after = 1)
            /\ dlast.kind = "retract" =>
                  /\ before - after \in {0, 1}
                  /\ (dlast.forwarded # {} => before = 1 /\ after = 0)

C8_Witness ==
    /\ Shared /\ udfs[0].filter_arg = 1 /\ udfs[1].filter_arg = 2
    /\ dlast.kind = "retract"
    /\ dlast.row.f[1] /\ ~dlast.row.f[2]
    /\ dlast.views_before[0][dlast.row.value] = 2
    /\ dlast.views_after[0][dlast.row.value] = 1
    /\ dlast.forwarded = {}

HandleState == [views |-> distinct_data_views, accs |-> agg_accumulators]

AccumulateThenRetract(a, x) ==
    LET b == handle_accumulate(udfs, a.views, a.accs, x)
        c == handle_retract(udfs, b.views, b.accs, x)
    IN  [views |-> c.views, accs |-> c.accs]

----------------------------------------------------------------------------
(* Claims about the named properties of the windowed operation *)

HasUnknownProperty ==
    \E i \in 1..Len(group_window.namedProperties) :
        group_window.namedProperties[i] \notin
            {"WINDOW_START", "WINDOW_END", "ROW_TIME_ATTRIBUTE", "PROC_TIME_ATTRIBUTE"}

\* C11: constructing the windowed operation with a named property that is none
\* of WINDOW_START, WINDOW_END, ROW_TIME_ATTRIBUTE, PROC_TIME_ATTRIBUTE raises
\* "Unexpected property" at setup, whatever the other named properties and the
\* window type; no extractor leaving the unknown property out is produced.
C11_UnknownPropertyRaises ==
    HasUnknownProperty =>
        /\ wop.status \in {"new", "failed"}
        /\ wop.named_property_extractor = None
        /\ wop.window_assigner = None /\ wop.trigger = None
        /\ (wop.status = "failed" => wop.error = "Unexpected property UNKNOWN_PROPERTY")
        /\ wlast = NoCall /\ wresults = <<>> /\ window_state = <<>>

C11_Witness ==
    /\ group_window.window_type = SLIDING_GROUP_WINDOW
    /\ group_window.namedProperties = <<WINDOW_START, UNKNOWN_PROPERTY>>
    /\ wop.status = "failed"
    /\ wop.error = "Unexpected property UNKNOWN_PROPERTY"

\* The value the specification gives a named property on a window.
PropertyValue(named_property, window) ==
    CASE named_property = "WINDOW_START" -> window.start
      [] named_property = "WINDOW_END" -> window.end
      [] named_property = "ROW_TIME_ATTRIBUTE" -> window.end - 1
      [] named_property = "PROC_TIME_ATTRIBUTE" -> -1

FiredRows == {i \in 1..Len(wresults) : wresults[i].type = NORMAL_RECORD}

\* C17: the named-property extractor, applied to a firing window, gives one
\* value per configured named property, in configuration order: window.start,
\* window.end, window.end - 1 and -1 for the four kinds; with no named property
\* configured there is no extractor and no column is appended.
C17_NamedProperties ==
    (wop.status = "ready") =>
        LET props == group_window.namedProperties
        IN  /\ (props = <<>>) <=> (wop.named_property_extractor = None)
            /\ \A i \in FiredRows :
                  LET row == wresults[i].record
                  IN  /\ Len(row.properties) = Len(props)
                      /\ \A j \in 1..Len(props) :
                            row.properties[j] = PropertyValue(props[j], row.window)

C17_Witness ==
    /\ group_window.namedProperties = <<ROW_TIME_ATTRIBUTE, WINDOW_START>>
    /\ wlast.fired # {}
    /\ Len(wresults) = 1
    /\ wresults[1].record.window = TimeWindow(0, WindowSize)
    /\ wresults[1].record.properties = <<WindowSize - 1, 0>>

----------------------------------------------------------------------------
(* Claims about the process function of a non-keyed stream *)

RegisterCalls == {"register_processing_time_timer", "register_event_time_timer"}

\* C12: on the timer service of a non-keyed process function, every call of
\* register_processing_time_timer or register_event_time_timer fails with an
\* error, registers no timer and emits no timer record, for every timestamp and
\* in every state of the service.
C12_NonKeyedRegisterFails ==
    /\ pf_timers = {}
    /\ pf_results = <<>>
    /\ pf_last.op \in RegisterCalls =>
          /\ pf_last.raised
          /\ pf_last.message = "Register timers is only supported on a keyed stream."

C12_Witness ==
    /\ pf_last.op = "register_processing_time_timer"
    /\ pf_last.raised
    /\ pf_last.t = MaxTimestamp
    /\ timer_service._current_watermark = [value |-> 1]
    /\ function_context._timestamp = [value |-> 0]

----------------------------------------------------------------------------
(* Claims about batches and timers of the non-windowed operation *)

\* C14: finish_bundle is called once per input batch, after every input of the
\* batch was processed: while a call runs nothing is returned and the records
\* produced so far wait in the buffer; the call returns exactly the records its
\* inputs produced, in production order, and leaves nothing for a later call.
C14_FinishBundleOncePerBatch ==
    IF returned
    THEN results = produced /\ buffer = <<>>
    ELSE results = <<>> /\ buffer = produced

C14_Witness ==
    /\ returned
    /\ Len(input_datas) = 2
    /\ is_normal_record(input_datas[1]) /\ is_normal_record(input_datas[2])
    /\ call_state[input_datas[1].element.key] # None
    /\ Len(results) = 3
    /\ results = produced

\* C20: handling a timer input adds no change record to the batch output; it
\* clears the accumulator state of the key only if the key was not touched
\* since the timer was registered, otherwise it leaves the state and registers
\* the timer again; the state of every other key is unchanged.
C20_OnTimerFrame ==
    [][\A key \in TheKeys :
          (input_datas' = Handled \o <<TimerInput(key)>> /\ ~returned') =>
              /\ buffer' = buffer
              /\ last'.out = <<>>
              /\ \A other \in TheKeys \ {key} :
                    accumulates'[other] = accumulates[other] /\ timer'[other] = timer[other]
              /\ IF timer[key] = "idle"
                 THEN accumulates'[key] = None /\ timer'[key] = "none"
                 ELSE accumulates'[key] = accumulates[key] /\ timer'[key] = "idle"]_vars

C20_Witness ==
    /\ ~returned
    /\ last.input.type = TRIGGER_TIMER
    /\ input_datas[Len(input_datas)] = last.input
    /\ last.pre # None
    /\ accumulates[last.key] = last.pre
    /\ timer[last.key] = "idle"
    /\ \E other \in TheKeys \ {last.key} : accumulates[other] # None
    /\ buffer # <<>>

----------------------------------------------------------------------------
\* C13: a TRIGGER_TIMER input whose timer kind is neither register-event nor
\* register-processing ends in a fatal error: neither timer handler is invoked
\* and no change record is returned.
MalformedTimerCall ==
    /\ wlast.cause = "timer"
    /\ wlast.input.timer_data[1] \notin TimerKinds

C13_MalformedTimerIsFatal ==
    MalformedTimerCall =>
        /\ wlast.raised
        /\ wlast.handler = "none"
        /\ wresults = <<>>

----------------------------------------------------------------------------
\* C15: every timer registration or deletion request the window function
\* accumulates while handling an input, a record or a timer, is an entry
\* (TRIGGER_TIMER, null, [timerKind, key, timestamp, encodedNamespace]) of the
\* list returned for that same input.
C15_RequestsReturnedWithSameInput ==
    wlast.cause # "none" =>
        \A i \in 1..Len(wlast.requests) :
            \E j \in 1..Len(wresults) : wresults[j] = ResultTimer(wlast.requests[i])

----------------------------------------------------------------------------
\* C16: timer registration is idempotent on (timestamp, key, namespace):
\* registering a timer that is already pending leaves its entry of the timer
\* queue as it was, and every pending timer is held once, so it fires once and
\* not once per registration.
ReRegistered(t) ==
    /\ t \in DOMAIN wlast.queue_before
    /\ \E j \in 1..Len(wresults) : IsRegistration(wresults[j]) /\ wresults[j].timer = t
    /\ \A j \in 1..Len(wresults) :
           wresults[j].type = TRIGGER_TIMER /\ ~IsRegistration(wresults[j])
               => [wresults[j].timer EXCEPT !.timer_type = @ - 2] # t

----------------------------------------------------------------------------
\* C18: with the count trigger of threshold n on tumbling count windows, a
\* window fires exactly at the element that brings its count to n, no window
\* is left holding n elements, and after k elements of a key its windows have
\* fired floor(k / n) times.
CountWindowed == wop.status = "ready" /\ ~wop.is_time_window

C18_CountTriggerFirings ==
    CountWindowed =>
        LET n == group_window.window_size
        IN  /\ \A key \in WKeys : count_fires[key] = element_count[key] \div n
            /\ \A kw \in DOMAIN window_state : window_state[kw].count < n
            /\ wlast.cause = "element" =>
                   LET key == key_selector(wlast.input.row)
                   IN  (wlast.fired # {}) <=> (element_count[key] % n = 0)

C18_Witness ==
    /\ CountWindowed
    /\ wlast.cause = "element"
    /\ wlast.fired # {}
    /\ \E key \in WKeys : /\ element_count[key] >= 2 * group_window.window_size
                          /\ count_fires[key] = 2

----------------------------------------------------------------------------
\* C19: for time windows, an element assigned to window w registers an
\* event-time cleanup timer at w.end + allowedLateness; the state of (key, w)
\* is removed by the call in which that timer fires and by no other call, and
\* it comes back only with an element assigned to w.  For count windows the
\* state is removed by the call in which the window fires.
CleanupTimer(kw) ==
    [timer_type |-> REGISTER_EVENT_TIMER, key |-> kw[1],
     timestamp |-> kw[2].end + group_window.allowedLateness,
     namespace |-> encode_nested(kw[2])]

IsCleanupFiring(input_data, kw) ==
    /\ input_data.type = TRIGGER_TIMER
    /\ input_data.timer_data = <<REGISTER_EVENT_TIMER, kw[1], encode_nested(kw[2])>>
    /\ input_data.timestamp = kw[2].end + group_window.allowedLateness

C19_CleanupPending ==
    wop.status = "ready" =>
        \A kw \in DOMAIN window_state :
            wop.is_time_window => CleanupTimer(kw) \in DOMAIN timers

C19_Step ==
    /\ \A kw \in DOMAIN window_state \ DOMAIN window_state' :
           IF wop.is_time_window
           THEN IsCleanupFiring(wlast'.input, kw)
           ELSE wlast'.input.type = NORMAL_RECORD /\ kw \in wlast'.fired
    /\ \A kw \in DOMAIN window_state' \ DOMAIN window_state :
           /\ wlast'.input.type = NORMAL_RECORD
           /\ key_selector(wlast'.input.row) = kw[1]
           /\ kw[2] \in wlast'.assigned
           /\ wop.is_time_window =>
                  \E j \in 1..Len(wresults') : wresults'[j].timer = CleanupTimer(kw)
    /\ \A kw \in DOMAIN window_state :
           wop.is_time_window /\ wlast' # wlast /\ IsCleanupFiring(wlast'.input, kw)
               => kw \notin DOMAIN window_state'
    /\ wlast' # wlast /\ ~wop.is_time_window => wlast'.purged = wlast'.fired

C19_CleanupAndPurge == []C19_CleanupPending /\ [][C19_Step]_vars

C19_Witness ==
    /\ wop.status = "ready"
    /\ wop.is_time_window
    /\ group_window.allowedLateness = 1
    /\ wlast.cause = "timer"
    /\ wlast.purged # {}
    /\ \A kw \in wlast.purged : IsCleanupFiring(wlast.input, kw)
    /\ window_state = <<>>

----------------------------------------------------------------------------
\* C25: each call to register_processing_time_timer, register_event_time_timer,
\* delete_processing_time_timer or delete_event_time_timer with timestamp t
\* appends exactly one record (operand type of the operation, t, current key
\* of the keyed state backend at call time, None) to the end of the collector
\* buffer and leaves the records before it as they were; clear() empties the
\* buffer.
TimerServiceOperand(op) ==
    IF op = "register_event_time_timer" THEN 0
    ELSE IF op = "register_processing_time_timer" THEN 1
    ELSE IF op = "delete_event_time_timer" THEN 2
    ELSE 3

TimerServiceOps ==
    {"register_processing_time_timer", "register_event_time_timer",
     "delete_processing_time_timer", "delete_event_time_timer"}

C25_Step ==
    /\ kp_last'.op \in TimerServiceOps =>
           /\ Len(collector_buf') = Len(collector_buf) + 1
           /\ SubSeq(collector_buf', 1, Len(collector_buf)) = collector_buf
           /\ collector_buf'[Len(collector_buf')] =
                  <<[value |-> TimerServiceOperand(kp_last'.op)], kp_last'.t,
                    keyed_current_key, None>>
    /\ kp_last'.op = "clear" => collector_buf' = <<>>

C25_TimerServiceAppends == [][C25_Step]_vars

C25_Witness ==
    /\ Len(collector_buf) = 3
    /\ kp_last = [op |-> "delete_event_time_timer", t |-> 2]
    /\ collector_buf[3] = <<[value |-> 2], 2, "B", None>>
    /\ collector_buf[1] = <<[value |-> 1], 1, "A", None>>

----------------------------------------------------------------------------
\* C26: every entry of the collector buffer carries a header flag that tells
\* its type: 0 for a processing-time timer registration, 1 for an event-time
\* timer registration and 2 for normal data emitted with collect().
C26_HeaderFlags ==
    \A i \in 1..Len(collector_buf) :
        /\ collected[i] = "collect_reg_proc_timer" => collector_buf[i][1] = [value |-> 0]
        /\ collected[i] = "collect_reg_event_timer" => collector_buf[i][1] = [value |-> 1]
        /\ collected[i] = "collect" => collector_buf[i][1] = [value |-> 2]

----------------------------------------------------------------------------
\* C27: get_state, get_list_state, get_map_state, get_reducing_state and
\* get_aggregating_state each raise and return no state handle whenever the
\* context has no keyed state backend; the context built by a stateless data
\* stream operation, and by the non-keyed process function operation, never
\* has one, so every state access there fails.
StateMethods ==
    {"get_state", "get_list_state", "get_map_state", "get_reducing_state",
     "get_aggregating_state"}

C27_StateNeedsKeyedBackend ==
    /\ opened_by \in {DataStreamStatelessFunctionOperation, ProcessFunctionOperation}
           => runtime_context._keyed_state_backend = None
    /\ rc_last.method \in StateMethods /\ runtime_context._keyed_state_backend = None
           => /\ rc_last.raised
              /\ rc_last.handle = None
              /\ rc_last.message =
                     "This state is only accessible by functions executed on a KeyedStream."

C27_Witness ==
    /\ opened_by = ProcessFunctionOperation
    /\ rc_last.method = "get_map_state"
    /\ rc_last.raised

----------------------------------------------------------------------------
\* C28: finish() of a stateful operation commits the keyed state backend
\* exactly once per call, after the metric gauges have been updated, whenever
\* there is a keyed state backend; without one, finish() commits nothing and
\* does not fail.
C28_FinishCommitsOnce ==
    fin_last.called =>
        /\ stateful_op.base_metric_group # None =>
               \A name \in GaugeNames :
                   stateful_op.base_metric_group._beam_gauge[name] =
                       [value |-> stateful_op.base_metric_group._flink_gauge[name]]
        /\ IF fin_last.had_backend
           THEN /\ stateful_op.keyed_state_backend # None
                /\ Commits(stateful_op) = fin_last.commits_before + 1
                /\ finish_log = <<"_update_gauge", "commit">>
           ELSE /\ stateful_op.keyed_state_backend = None
                /\ finish_log = <<"_update_gauge">>

C28_Witness ==
    /\ fin_last.called
    /\ fin_last.had_backend
    /\ Commits(stateful_op) = 2
    /\ stateful_op.base_metric_group # None
    /\ stateful_op.base_metric_group._beam_gauge["g2"] = [value |-> 1]

----------------------------------------------------------------------------
\* C22: for a NORMAL_RECORD input the windowed operation hands the input's
\* watermark to the window function before the element, and returns the
\* element's change records, each as [NORMAL_RECORD, record, None] in
\* production order, followed by the drained timer requests, each as
\* [TRIGGER_TIMER, None, [operand kind, key, timestamp, encoded window]] in
\* drain order; no timer entry precedes a change record.
EventTimeWindowed ==
    wop.status = "ready" /\ wop.is_time_window /\ group_window.is_row_time

C22_ElementOutput ==
    wlast.cause = "element" =>
        LET n == Len(wlast.out)
            m == Len(wlast.drained)
        IN  /\ current_watermark = wlast.input.watermark
            /\ EventTimeWindowed =>
                   (wlast.dropped <=>
                        \E w \in wlast.assigned :
                            w.end + group_window.allowedLateness <= wlast.input.watermark)
            /\ Len(wresults) = n + m
            /\ \A i \in 1..n :
                   wresults[i] = [type |-> NORMAL_RECORD, record |-> wlast.out[i],
                                  timer |-> None]
            /\ \A j \in 1..m :
                   /\ wresults[n + j].type = TRIGGER_TIMER
                   /\ wresults[n + j].record = None
                   /\ wresults[n + j].timer =
                          [timer_type |-> operand_value(wlast.drained[j].operand),
                           key |-> wlast.drained[j].timer.key,
                           timestamp |-> wlast.drained[j].timer.timestamp,
                           namespace |-> encode_nested(wlast.drained[j].timer.namespace)]
            /\ \A i, j \in 1..Len(wresults) :
                   wresults[i].type = TRIGGER_TIMER /\ wresults[j].type = NORMAL_RECORD
                       => j < i

C22_Witness ==
    /\ wlast.cause = "element"
    /\ wlast.input.watermark >= 1
    /\ Len(wlast.out) >= 1
    /\ Len(wlast.drained) >= 1
    /\ wresults[1].type = NORMAL_RECORD
    /\ wresults[Len(wresults)].type = TRIGGER_TIMER

----------------------------------------------------------------------------
\* C23: for a TRIGGER_TIMER input with payload kind register-event (0) or
\* register-processing (1) the windowed operation builds the timer from the
\* input's timestamp, the payload's key and the decoded payload namespace,
\* hands it to on_event_time for kind 0 and to on_processing_time for kind 1,
\* to that handler alone, and returns the handler's change records, each as
\* [NORMAL_RECORD, record, None], in order.
C23_TimerDispatch ==
    wlast.cause = "timer" /\ wlast.input.timer_data[1] \in TimerKinds =>
        /\ wlast.timer = [timestamp |-> wlast.input.timestamp,
                          key |-> wlast.input.timer_data[2],
                          namespace |-> decode_nested(wlast.input.timer_data[3])]
        /\ wlast.input.timer_data[1] = 0 => wlast.handler = "on_event_time"
        /\ wlast.input.timer_data[1] = 1 => wlast.handler = "on_processing_time"
        /\ wlast.fired # {} =>
               wlast.input.timer_data[1] = (IF wop.trigger.kind = "EventTimeTrigger"
                                             THEN 0 ELSE 1)
        /\ wlast.purged # {} => wlast.input.timer_data[1] = 0
        /\ Len(wresults) = Len(wlast.out)
        /\ \A i \in 1..Len(wlast.out) :
               wresults[i] = [type |-> NORMAL_RECORD, record |-> wlast.out[i],
                              timer |-> None]

C23_Witness ==
    /\ wlast.cause = "timer"
    /\ wlast.input.timer_data[1] = 1
    /\ wlast.handler = "on_processing_time"
    /\ Len(wresults) >= 1

----------------------------------------------------------------------------
\* C24: for a tumbling group window the policies come from the configuration
\* alone: a time window gets TumblingWindowAssigner(window_size, 0,
\* is_row_time) with the EventTimeTrigger when is_row_time and the
\* ProcessingTimeTrigger otherwise; a non-time window gets
\* CountTumblingWindowAssigner(window_size) with CountTrigger(window_size).
\* A count assigner is never paired with a time trigger, nor a time assigner
\* with the count trigger.
C24_PolicySelection ==
    wop.status = "ready" =>
        /\ group_window.window_type = TUMBLING_GROUP_WINDOW
        /\ IF group_window.is_time_window
           THEN /\ wop.window_assigner =
                       [kind |-> "TumblingWindowAssigner",
                        size |-> group_window.window_size, offset |-> 0,
                        is_event_time |-> group_window.is_row_time]
                /\ wop.trigger.kind = (IF group_window.is_row_time
                                       THEN "EventTimeTrigger"
                                       ELSE "ProcessingTimeTrigger")
           ELSE /\ wop.window_assigner = [kind |-> "CountTumblingWindowAssigner",
                                          size |-> group_window.window_size]
                /\ wop.trigger = [kind |-> "CountTrigger",
                                  count |-> group_window.window_size]
        /\ (wop.window_assigner.kind = "CountTumblingWindowAssigner")
               <=> (wop.trigger.kind = "CountTrigger")

C24_Witness ==
    /\ wop.status = "ready"
    /\ ~group_window.is_time_window
    /\ wop.trigger.kind = "CountTrigger"
    /\ wlast.cause = "element"
    /\ wlast.fired # {}

----------------------------------------------------------------------------
\* C21: the non-windowed process_element_or_timer handles the inputs of a
\* batch in list order, one at a time: a NORMAL_RECORD input goes to
\* process_element with its element, every other input to on_timer with its
\* key, and each input finds the state the inputs before it have left, so the
\* accumulator of a key is changed in the arrival order of the key's inputs.
InputHandled ==
    /\ ~returned'
    /\ Len(input_datas') = Len(Handled) + 1

C21_Step ==
    InputHandled =>
        LET input_data == input_datas'[Len(input_datas')]
        IN  /\ SubSeq(input_datas', 1, Len(Handled)) = Handled
            /\ last'.input = input_data
            /\ IF input_data.type = NORMAL_RECORD
               THEN LET key == key_selector(input_data.element)
                        r == process_element(group_agg_function, accumulates[key],
                                             input_data.element)
                    IN  /\ last'.pre = accumulates[key]
                        /\ accumulates'[key] = r.acc
                        /\ buffer' = buffer \o r.out
               ELSE /\ last'.key = input_data.key
                    /\ last'.pre = accumulates[input_data.key]
                    /\ buffer' = buffer
                    /\ timer'[input_data.key] # "touched"

C21_InputsInListOrder == [][C21_Step]_vars

C21_Witness ==
    /\ ~returned
    /\ Len(input_datas) = 2
    /\ input_datas[1].type = NORMAL_RECORD
    /\ input_datas[2].type = NORMAL_RECORD
    /\ input_datas[1].element.key = input_datas[2].element.key
    /\ last.input = input_datas[2]
    /\ last.pre # None
    /\ Len(buffer) >= 2

----------------------------------------------------------------------------
\* C30: processing a record whose key is k reads and writes the accumulator
\* state of k only and emits change records for k only: the state, the timer
\* and the downstream rows of every other key are as before, and the new state
\* and the output are those processElement computes from the state of k and
\* the record, whatever the states of the other keys are.
C30_Step ==
    InputHandled /\ input_datas'[Len(input_datas')].type = NORMAL_RECORD =>
        LET row == input_datas'[Len(input_datas')].element
            k == row.key
        IN  /\ \A other \in TheKeys \ {k} :
                   /\ accumulates'[other] = accumulates[other]
                   /\ timer'[other] = timer[other]
                   /\ live'[other] = live[other]
            /\ \A i \in 1..Len(last'.out) : last'.out[i].key = k
            /\ buffer' = buffer \o last'.out
            /\ \A others \in [TheKeys \ {k} -> {None, createAccumulators}] :
                   LET store == [x \in TheKeys |->
                                    IF x = k THEN accumulates[k] ELSE others[x]]
                       r == process_element(group_agg_function,
                                            store[key_selector(row)], row)
                   IN  accumulates'[k] = r.acc /\ last'.out = r.out

C30_KeyIsolation == [][C30_Step]_vars

C30_Witness ==
    /\ ~returned
    /\ last.input.type = NORMAL_RECORD
    /\ last.input.element.key = "B"
    /\ last.out # <<>>
    /\ \A i \in 1..Len(last.out) : last.out[i].key = "B"
    /\ accumulates["A"] # None
    /\ live["A"] # None

----------------------------------------------------------------------------
\* C29: an error raised by the state store while an input is processed is
\* neither caught nor retried: it ends the call of process_element_or_timer;
\* the remaining inputs of the batch are not processed and finish_bundle is
\* not called for the batch.
C29_Raised ==
    store_error.raised =>
        /\ ~returned
        /\ results = <<>>
        /\ buffer = produced
        /\ input_datas[Len(input_datas)] = store_error.input

C29_Step ==
    store_error.raised =>
        /\ store_error' = store_error
        /\ input_datas' = input_datas
        /\ accumulates' = accumulates
        /\ buffer' = buffer
        /\ results' = results
        /\ returned' = returned

C29_StoreErrorPropagates == []C29_Raised /\ [][C29_Step]_vars

C29_Witness ==
    /\ store_error.raised
    /\ store_error.access = "update"
    /\ Len(input_datas) = 2
    /\ buffer # <<>>
    /\ accumulates[input_datas[1].element.key] # None

----------------------------------------------------------------------------
(* Change records of a key and the row downstream holds for it *)

\* Whether every UPDATE_BEFORE, UPDATE_AFTER and DELETE of `recs` is emitted
\* while downstream holds an inserted and not deleted row of the record's key
\* (has_row: key -> BOOLEAN, followed through the records).
RECURSIVE EmittedOnInsertedRow(_, _)
EmittedOnInsertedRow(has_row, recs) ==
    IF recs = <<>> THEN TRUE
    ELSE LET r == Head(recs)
         IN /\ r.kind \in {"UPDATE_BEFORE", "UPDATE_AFTER", "DELETE"} => has_row[r.key]
            /\ EmittedOnInsertedRow(Inserted(has_row, <<r>>), Tail(recs))

\* The change records a step adds to the output buffer.
Emitted ==
    IF Len(buffer') > Len(buffer)
    THEN SubSeq(buffer', Len(buffer) + 1, Len(buffer'))
    ELSE <<>>

\* C31: with state cleaning enabled, no UPDATE_BEFORE, UPDATE_AFTER or DELETE
\* of a key is emitted while downstream holds no inserted and not deleted row
\* of the key: after a DELETE the next change record of the key is an INSERT.
C31_Step ==
    state_cleaning_enabled => EmittedOnInsertedRow(inserted, Emitted)

C31_InsertAfterDelete == [][C31_Step]_vars

\* A DELETE of key A and, as the next record of the running call, an INSERT of A.
C31_Witness ==
    /\ state_cleaning_enabled /\ LastIsElement
    /\ Kinds(produced) = <<"DELETE", "INSERT">>
    /\ produced[1].key = "A" /\ produced[2].key = "A"
    /\ last.out = <<produced[2]>>
    /\ inserted["A"]

=============================================================================
